---------------------------- MODULE Spec2Model ----------------------------
(***************************************************************************)
(* micronota: the GFF3 record codec (micronota/parsers/gff3.py), the GFF   *)
(* sniffer of micronota/parsers/gff.py, the overwrite guard and download   *)
(* helper (micronota/util.py), the UniRef database preparation             *)
(* (micronota/db/uniref.py) and the SignalP result paths                   *)
(* (micronota/bfillings/signalp.py).                                       *)
(*                                                                         *)
(* Text is modelled as sequences of one-character strings, so that strip,  *)
(* split, join, startswith, int(), float() and str() are computed and not  *)
(* assumed.  A stream (file handle) is the sequence of its lines, each     *)
(* line carrying its line break.                                           *)
(***************************************************************************)
EXTENDS Integers, Sequences, FiniteSets, TLC

VARIABLES
    fh,         \* the stream being read: a sequence of lines
    pos,        \* lines of fh consumed by _line_generator in _parse_records
    seqID,      \* _parse_records: the accumulating SEQID, or False
    features,   \* _parse_records: the record being accumulated (a dict)
    yielded,    \* the records _parse_records has yielded so far
    pc,         \* position of the reader: "loop", "done", "closed", "error"
    reader,     \* which reader drives the generator: "generator" | "metadata"
    rec_num,    \* _gff_to_metadata's rec_num
    result,     \* what the reader has returned or raised
    round,      \* 1: reading the input; 2: re-reading what the writer wrote
    obj,        \* the record handed to _IntervalMetadata_to_gff
    widx,       \* writer: entries of obj already handled
    sink,       \* writer: the strings written to fh so far
    wpc,        \* writer: "idle", "loop", "done", "error"
    module,     \* sniffer: which module's _gff_sniffer runs: "gff3" | "gff"
    optimize,   \* sniffer: whether assert statements are compiled out (-O)
    count,      \* _too_many_blanks: blank lines counted
    spos,       \* sniffer: lines consumed by the running line generator
    spc,        \* sniffer: "blanks", "next", "returned", "raised"
    sresult,    \* sniffer: the boolean returned, or the exception raised
    attr_s,     \* attribute codec: the input string
    attr_val,   \* attribute codec: the decoded (tags, values) pair
    attr_text,  \* attribute codec: the re-encoded string
    attr_again, \* attribute codec: the re-encoded string decoded again
    apc,        \* attribute codec: "start", "parsed", "encoded", "reparsed"
    tok,        \* _parse_required: the raw token s
    coerced,    \* _parse_required: what it returned or raised
    fs,         \* the file system: path |-> [kind, rows, indexed]
    fs0,        \* the file system as it was when the running call was made
    ow_args,    \* _overwrite: its arguments fp, overwrite, append
    ow_result,  \* _overwrite: "none", "returned", "FileExistsError"
    force,      \* prepare_db: its force argument
    dpc,        \* prepare_db: the statement it is at
    fetched,    \* prepare_db: the files it has downloaded, in order
    dresult,    \* prepare_db: "none", "returned", or the exception raised
    pm_runs,    \* prepare_metadata: calls made so far
    pm_args,    \* prepare_metadata: arguments of the last call
    pm_result,  \* prepare_metadata: what the last call returned or raised
    sp_params,  \* SignalP: the parameters that are on, with their values
    sp_data,    \* SignalP: the lines of the input file data[0]
    sp_result,  \* SignalP._get_result_paths: the dict returned, or the error
    sp_pc,      \* SignalP: "start", "returned", "raised"
    su_args,    \* sort_uniref: overwrite, the ids of the UniRef file, the metadata table
    su_cwd,     \* sort_uniref: what is at each partition name in the working directory
    su_files,   \* sort_uniref: the dict files, each handle with what was written to it
    su_idx,     \* sort_uniref: number of sequences read from the UniRef file
    su_pc       \* sort_uniref: "guard", "open", "read", "returned", or the error raised

parserVars == <<fh, pos, seqID, features, yielded, pc, reader, rec_num, result, round>>
writerVars == <<obj, widx, sink, wpc>>
snifferVars == <<module, optimize, count, spos, spc, sresult>>
attrVars == <<attr_s, attr_val, attr_text, attr_again, apc>>
gffVars == <<parserVars, writerVars, snifferVars, attrVars>>
coerceVars == <<tok, coerced>>
overwriteVars == <<ow_args, ow_result>>
prepareDbVars == <<force, dpc, fetched, dresult>>
metadataVars == <<pm_runs, pm_args, pm_result>>
signalpVars == <<sp_params, sp_data, sp_result, sp_pc>>
sortVars == <<su_args, su_cwd, su_files, su_idx, su_pc>>
utilVars == <<fs, fs0, overwriteVars, prepareDbVars, metadataVars, sortVars>>
otherVars == <<coerceVars, utilVars, signalpVars>>
vars == <<gffVars, otherVars>>

(***************************************************************************)
(* Bounds of the model.                                                    *)
(***************************************************************************)
MaxLines == 3
MaxRecNum == 3
MaxEntries == 2
MaxLeadingBlanks == 6
MaxAttrLen == 7

(***************************************************************************)
(* Python's str operations, on sequences of characters.                    *)
(***************************************************************************)
Whitespace == {" ", "\t", "\n", "\r"}

Min(a, b) == IF a <= b THEN a ELSE b

RECURSIVE LStrip(_)
LStrip(s) ==
    IF s # <<>> /\ Head(s) \in Whitespace THEN LStrip(Tail(s)) ELSE s

RECURSIVE RStrip(_)
RStrip(s) ==
    IF s # <<>> /\ s[Len(s)] \in Whitespace
    THEN RStrip(SubSeq(s, 1, Len(s) - 1))
    ELSE s

\* str.strip()
Strip(s) == RStrip(LStrip(s))

\* str.isspace(): non-empty and whitespace only
IsSpace(s) == s # <<>> /\ \A i \in 1..Len(s) : s[i] \in Whitespace

\* str.startswith(p)
StartsWith(s, p) == Len(s) >= Len(p) /\ SubSeq(s, 1, Len(p)) = p

RECURSIVE SplitFrom(_, _, _, _)
SplitFrom(s, c, i, cur) ==
    IF i > Len(s) THEN <<cur>>
    ELSE IF s[i] = c THEN <<cur>> \o SplitFrom(s, c, i + 1, <<>>)
    ELSE SplitFrom(s, c, i + 1, Append(cur, s[i]))

\* str.split(c) for a one-character separator: never an empty list
Split(s, c) == SplitFrom(s, c, 1, <<>>)

RECURSIVE Join(_, _)
\* c.join(parts), c a string
Join(c, parts) ==
    IF parts = <<>> THEN <<>>
    ELSE IF Len(parts) = 1 THEN parts[1]
    ELSE parts[1] \o c \o Join(c, Tail(parts))

\* a Python slice s[a:b], 0-based, clipped to the sequence
Slice(s, a, b) == SubSeq(s, a + 1, Min(b, Len(s)))

(***************************************************************************)
(* Python values.  Every scalar has the same shape: t is the type; an int  *)
(* is n; a float is n * 10^e with n free of trailing zeros (s = <<"-">>    *)
(* marks a negative zero), or an infinity (t = "inf", n its sign) or a NaN *)
(* (t = "nan"); a str is s.                                                *)
(***************************************************************************)
PyFalse == [t |-> "bool", n |-> 0, e |-> 0, s |-> <<>>]
PyInt(n) == [t |-> "int", n |-> n, e |-> 0, s |-> <<>>]
PyStr(s) == [t |-> "str", n |-> 0, e |-> 0, s |-> s]
PyNaN == [t |-> "nan", n |-> 0, e |-> 0, s |-> <<>>]
PyInf(sign) == [t |-> "inf", n |-> sign, e |-> 0, s |-> <<>>]

RECURSIVE Pow10(_)
Pow10(k) == IF k <= 0 THEN 1 ELSE 10 * Pow10(k - 1)

RECURSIVE Normalize(_, _)
Normalize(m, e) ==
    IF m = 0 THEN <<0, 0>>
    ELSE IF m % 10 = 0 THEN Normalize(m \div 10, e + 1)
    ELSE <<m, e>>

PyFloat(m, e, negative) ==
    LET ne == Normalize(m, e)
    IN  [t |-> "float", n |-> IF negative THEN 0 - ne[1] ELSE ne[1], e |-> ne[2],
         s |-> IF negative /\ m = 0 THEN <<"-">> ELSE <<>>]

Digits == <<"0", "1", "2", "3", "4", "5", "6", "7", "8", "9">>
DigitSet == {Digits[i] : i \in 1..Len(Digits)}
DigitVal(c) == (CHOOSE i \in 1..Len(Digits) : Digits[i] = c) - 1

\* U+00B2 SUPERSCRIPT TWO, one character: a digit for str.isdigit() that is
\* not a decimal digit for int() and float()
SuperscriptTwo == "^2"

\* str.isdigit(): true of the decimal digits and of the other digit characters
IsDigit(s) == s # <<>> /\ \A i \in 1..Len(s) : s[i] \in DigitSet \cup {SuperscriptTwo}

AllDigits(s) == \A i \in 1..Len(s) : s[i] \in DigitSet

RECURSIVE StrToNat(_)
StrToNat(s) ==
    IF s = <<>> THEN 0
    ELSE 10 * StrToNat(SubSeq(s, 1, Len(s) - 1)) + DigitVal(s[Len(s)])

RECURSIVE NatToStr(_)
NatToStr(n) ==
    IF n < 10 THEN <<Digits[n + 1]>>
    ELSE NatToStr(n \div 10) \o <<Digits[(n % 10) + 1]>>

\* the letters float() reads without regard to case
LowerChar(c) ==
    CASE c = "N" -> "n" [] c = "A" -> "a" [] c = "I" -> "i" [] c = "F" -> "f"
      [] c = "T" -> "t" [] c = "Y" -> "y" [] c = "E" -> "e" [] OTHER -> c
Lower(s) == [i \in 1..Len(s) |-> LowerChar(s[i])]

Unsigned(s) == IF s # <<>> /\ Head(s) \in {"+", "-"} THEN Tail(s) ELSE s
IsNegative(s) == s # <<>> /\ Head(s) = "-"

\* float(s): [ok |-> FALSE] stands for ValueError
ParseFloat(s) ==
    LET body == Lower(Unsigned(Strip(s)))
        neg == IsNegative(Strip(s))
        me == Split(body, "e")
        mant == Split(me[1], ".")
        ip == mant[1]
        fp == IF Len(mant) = 2 THEN mant[2] ELSE <<>>
        ex == IF Len(me) = 2 THEN me[2] ELSE <<>>
        exv == IF IsNegative(ex) THEN 0 - StrToNat(Unsigned(ex)) ELSE StrToNat(Unsigned(ex))
        decimal ==
            /\ Len(me) <= 2
            /\ Len(mant) <= 2
            /\ AllDigits(ip) /\ AllDigits(fp)
            /\ ip \o fp # <<>>
            /\ Len(me) = 2 => (Unsigned(ex) # <<>> /\ AllDigits(Unsigned(ex)))
    IN  IF body = <<"n", "a", "n">> THEN [ok |-> TRUE, val |-> PyNaN]
        ELSE IF body \in {<<"i", "n", "f">>, <<"i", "n", "f", "i", "n", "i", "t", "y">>}
        THEN [ok |-> TRUE, val |-> PyInf(IF neg THEN 0 - 1 ELSE 1)]
        ELSE IF decimal
        THEN [ok |-> TRUE, val |-> PyFloat(StrToNat(ip \o fp), exv - Len(fp), neg)]
        ELSE [ok |-> FALSE, val |-> PyFalse]

IsFloat(s) == ParseFloat(s).ok

\* the ValueError an int() call raises, in the shape of a value
PyValueError == [t |-> "ValueError", n |-> 0, e |-> 0, s |-> <<>>]

\* int(s) for an s that str.isdigit() accepted
ParseInt(s) == IF AllDigits(s) THEN PyInt(StrToNat(s)) ELSE PyValueError

ParseRequired(s) ==
    IF IsDigit(s) THEN ParseInt(s)
    ELSE IF IsFloat(s) THEN ParseFloat(s).val
    ELSE PyStr(s)

\* a == b on two scalars
PyEq(a, b) ==
    IF a.t = "nan" \/ b.t = "nan" THEN FALSE
    ELSE IF a.t = "str" \/ b.t = "str" THEN a.t = b.t /\ a.s = b.s
    ELSE IF a.t = "inf" \/ b.t = "inf" THEN a.t = b.t /\ a.n = b.n
    ELSE LET lo == Min(a.e, b.e)
         IN  a.n * Pow10(a.e - lo) = b.n * Pow10(b.e - lo)

Abs(n) == IF n < 0 THEN 0 - n ELSE n
Zeros(k) == [i \in 1..k |-> "0"]
TwoDigits(n) == IF n < 10 THEN <<"0">> \o NatToStr(n) ELSE NatToStr(n)

\* repr of a finite float, as str() gives it
FloatRepr(v) ==
    LET d == NatToStr(Abs(v.n))
        nd == Len(d)
        decpt == IF v.n = 0 THEN 1 ELSE nd + v.e
        sign == IF v.n < 0 \/ v.s = <<"-">> THEN <<"-">> ELSE <<>>
        body ==
            IF decpt <= 0 - 4 \/ decpt > 16
            THEN <<d[1]>> \o (IF nd > 1 THEN <<".">> \o Tail(d) ELSE <<>>)
                 \o <<"e">> \o (IF decpt - 1 < 0 THEN <<"-">> ELSE <<"+">>)
                 \o TwoDigits(Abs(decpt - 1))
            ELSE IF decpt <= 0 THEN <<"0", ".">> \o Zeros(0 - decpt) \o d
            ELSE IF decpt >= nd THEN d \o Zeros(decpt - nd) \o <<".", "0">>
            ELSE SubSeq(d, 1, decpt) \o <<".">> \o SubSeq(d, decpt + 1, nd)
    IN  sign \o body

\* str(v)
Str(v) ==
    CASE v.t = "str" -> v.s
      [] v.t = "int" -> (IF v.n < 0 THEN <<"-">> ELSE <<>>) \o NatToStr(Abs(v.n))
      [] v.t = "bool" -> IF v.n = 0 THEN <<"F", "a", "l", "s", "e">> ELSE <<"T", "r", "u", "e">>
      [] v.t = "nan" -> <<"n", "a", "n">>
      [] v.t = "inf" -> (IF v.n < 0 THEN <<"-">> ELSE <<>>) \o <<"i", "n", "f">>
      [] v.t = "float" -> FloatRepr(v)

(***************************************************************************)
(* The GFF3 module's constants.                                            *)
(***************************************************************************)
AnnotationHeaders == <<"SEQID", "SOURCE", "TYPE", "SCORE", "STRAND", "PHASE", "ATTR">>

GffHeadersAnnotationOrder ==
    <<"SEQID", "SOURCE", "TYPE", "SCORE", "STRAND", "PHASE", "START", "END", "ATTR">>

GffHeaders ==
    <<"SEQID", "SOURCE", "TYPE", "START", "END", "SCORE", "STRAND", "PHASE", "ATTR">>

\* '##gff-version 3'
GffVersionHeader ==
    <<"#", "#", "g", "f", "f", "-", "v", "e", "r", "s", "i", "o", "n", " ", "3">>

SeqToSet(q) == {q[i] : i \in 1..Len(q)}
IndexOf(q, x) == CHOOSE i \in 1..Len(q) : q[i] = x

(***************************************************************************)
(* _parse_attr: split on ';', each sub-field on '='; a sub-field that does *)
(* not unpack into exactly two parts gives ('', ''); both parts stripped.  *)
(* The result is the pair (tuple(types), tuple(values)).                   *)
(***************************************************************************)
AttrFieldSwapped(f) ==
    LET parts == Split(f, "=")
    IN  IF Len(parts) = 2 THEN <<Strip(parts[2]), Strip(parts[1])>> ELSE <<<<>>, <<>>>>

AttrField(f) ==
    LET parts == Split(f, "=")
    IN  IF Len(parts) = 2 THEN <<Strip(parts[1]), Strip(parts[2])>> ELSE <<<<>>, <<>>>>

ParseAttrSkipEmpty(s) ==
    LET field == SelectSeq(Split(s, ";"), LAMBDA f : f # <<>>)
    IN  [flat |-> FALSE,
         tags |-> [i \in 1..Len(field) |-> AttrField(field[i])[1]],
         vals |-> [i \in 1..Len(field) |-> AttrField(field[i])[2]]]

ParseAttr(s) ==
    LET field == Split(s, ";")
    IN  [flat |-> FALSE,
         tags |-> [i \in 1..Len(field) |-> AttrField(field[i])[1]],
         vals |-> [i \in 1..Len(field) |-> AttrField(field[i])[2]]]

(***************************************************************************)
(* Feature: an immutable mapping, here a function from field names to      *)
(* values; it is a dict key, equal to another when the keys agree and the  *)
(* values compare equal.  A record (dict Feature -> Interval) is the       *)
(* sequence of its entries in iteration order.                             *)
(***************************************************************************)
\* Feature(zip(keys, vals))
MkFeature(keys, vals) ==
    [k \in {keys[i] : i \in 1..Min(Len(keys), Len(vals))} |-> vals[IndexOf(keys, k)]]

FieldEq(k, a, b) == IF k = "ATTR" THEN a = b ELSE PyEq(a, b)

FeatEq(f, g) ==
    /\ DOMAIN f = DOMAIN g
    /\ \A k \in DOMAIN f : FieldEq(k, f[k], g[k])

HasKey(d, f) == \E i \in 1..Len(d) : FeatEq(d[i].k, f)

DictSetKeepsFirst(d, f, v) ==
    IF HasKey(d, f) THEN d ELSE Append(d, [k |-> f, v |-> v])

\* d[f] = v
DictSet(d, f, v) ==
    IF HasKey(d, f)
    THEN [i \in 1..Len(d) |-> IF FeatEq(d[i].k, f) THEN [k |-> d[i].k, v |-> v] ELSE d[i]]
    ELSE Append(d, [k |-> f, v |-> v])

\* IntervalMetadata(features=record)
Construct(record) == [features |-> record]

(***************************************************************************)
(* _parse_records, one line at a time.                                     *)
(***************************************************************************)
\* the line _line_generator(fh, skip_blanks=True, strip=True) hands out next
CurLine == Strip(fh[pos + 1])

\* skipped by _line_generator (blank) or by the parser (comment)
Skipped(line) == line = <<>> \/ IsSpace(line) \/ StartsWith(line, <<"#">>)

Tabs(line) == Split(line, "\t")

\* tabs[8] exists
HasAttrColumn(tabs) == Len(tabs) >= 9

Intervals(tabs) ==
    LET iv == Slice(tabs, 3, 5) IN [i \in 1..Len(iv) |-> ParseRequired(iv[i])]

Annot(tabs) ==
    LET headers == Slice(tabs, 0, 3) \o Slice(tabs, 5, 8)
    IN  Append([i \in 1..Len(headers) |-> ParseRequired(headers[i])], ParseAttr(tabs[9]))

Annotation(tabs) == MkFeature(AnnotationHeaders, Annot(tabs))

\* a column that _parse_required cannot coerce
CoercionFails(tabs) ==
    \E i \in 1..8 : i <= Len(tabs) /\ ParseRequired(tabs[i]) = PyValueError

\* the line makes _parse_records raise
Raises(tabs) == IF HasAttrColumn(tabs) THEN CoercionFails(tabs) ELSE TRUE

\* _annot[0] == seqID or seqID is False
SameSeqID(annot0, sid) == PyEq(annot0, sid) \/ sid = PyFalse

ReachedZeroBased(n) == reader = "metadata" /\ n = rec_num + 1

\* _get_nth_record stops the generator at its rec_num-th item
Reached(n) == reader = "metadata" /\ n = rec_num

\* what a reader does with the record the generator hands it
Deliver(record) ==
    IF reader = "generator"
    THEN [kind |-> "items", value |-> Append(result.value, Construct(record))]
    ELSE IF Reached(Len(yielded) + 1)
    THEN [kind |-> "value", value |-> <<Construct(record)>>]
    ELSE result

SkipLineResets ==
    /\ pc = "loop" /\ pos < Len(fh)
    /\ Skipped(CurLine)
    /\ pos' = pos + 1
    /\ seqID' = PyFalse
    /\ UNCHANGED <<fh, features, yielded, pc, reader, rec_num, result, round>>
    /\ UNCHANGED <<writerVars, snifferVars, attrVars, otherVars>>

SkipLine ==
    /\ pc = "loop" /\ pos < Len(fh)
    /\ Skipped(CurLine)
    /\ pos' = pos + 1
    /\ UNCHANGED <<fh, seqID, features, yielded, pc, reader, rec_num, result, round>>
    /\ UNCHANGED <<writerVars, snifferVars, attrVars, otherVars>>

BadLineSkipped ==
    /\ pc = "loop" /\ pos < Len(fh)
    /\ ~Skipped(CurLine)
    /\ Raises(Tabs(CurLine))
    /\ pos' = pos + 1
    /\ UNCHANGED <<fh, seqID, features, yielded, pc, reader, rec_num, result, round>>
    /\ UNCHANGED <<writerVars, snifferVars, attrVars, otherVars>>

\* tabs[8] raises IndexError, and int() raises ValueError
BadLine ==
    /\ pc = "loop" /\ pos < Len(fh)
    /\ ~Skipped(CurLine)
    /\ Raises(Tabs(CurLine))
    /\ pos' = pos + 1
    /\ pc' = "error"
    /\ result' = [kind |-> IF HasAttrColumn(Tabs(CurLine)) THEN "ValueError" ELSE "IndexError",
                  value |-> result.value]
    /\ UNCHANGED <<fh, seqID, features, yielded, reader, rec_num, round>>
    /\ UNCHANGED <<writerVars, snifferVars, attrVars, otherVars>>

Accumulate ==
    /\ pc = "loop" /\ pos < Len(fh)
    /\ ~Skipped(CurLine)
    /\ ~Raises(Tabs(CurLine))
    /\ LET tabs == Tabs(CurLine)
           annot == Annot(tabs)
       IN  /\ SameSeqID(annot[1], seqID)
           /\ seqID' = annot[1]
           /\ features' = DictSet(features, Annotation(tabs), Intervals(tabs))
    /\ pos' = pos + 1
    /\ UNCHANGED <<fh, yielded, pc, reader, rec_num, result, round>>
    /\ UNCHANGED <<writerVars, snifferVars, attrVars, otherVars>>

YieldRecord ==
    /\ pc = "loop" /\ pos < Len(fh)
    /\ ~Skipped(CurLine)
    /\ ~Raises(Tabs(CurLine))
    /\ LET tabs == Tabs(CurLine)
           annot == Annot(tabs)
       IN  /\ ~SameSeqID(annot[1], seqID)
           /\ seqID' = PyFalse
           /\ yielded' = Append(yielded, features)
           /\ result' = Deliver(features)
           /\ IF Reached(Len(yielded) + 1)
              THEN pc' = "closed" /\ features' = features
              ELSE pc' = pc /\ features' = DictSet(<<>>, Annotation(tabs), Intervals(tabs))
    /\ pos' = pos + 1
    /\ UNCHANGED <<fh, reader, rec_num, round>>
    /\ UNCHANGED <<writerVars, snifferVars, attrVars, otherVars>>

EndOfStreamSkipsEmpty ==
    /\ pc = "loop" /\ pos = Len(fh)
    /\ yielded' = IF features = <<>> THEN yielded ELSE Append(yielded, features)
    /\ IF reader = "metadata" /\ ~Reached(Len(yielded) + 1)
       THEN result' = [kind |-> "ValueError", value |-> <<>>] /\ pc' = "error"
       ELSE result' = Deliver(features) /\ pc' = IF reader = "metadata" THEN "closed" ELSE "done"
    /\ UNCHANGED <<fh, pos, seqID, features, reader, rec_num, round>>
    /\ UNCHANGED <<writerVars, snifferVars, attrVars, otherVars>>

\* the final yield; a reader in Nth-record mode that has not reached its
\* record by now raises ValueError
EndOfStream ==
    /\ pc = "loop" /\ pos = Len(fh)
    /\ yielded' = Append(yielded, features)
    /\ IF reader = "metadata" /\ ~Reached(Len(yielded) + 1)
       THEN result' = [kind |-> "ValueError", value |-> <<>>] /\ pc' = "error"
       ELSE result' = Deliver(features) /\ pc' = IF reader = "metadata" THEN "closed" ELSE "done"
    /\ UNCHANGED <<fh, pos, seqID, features, reader, rec_num, round>>
    /\ UNCHANGED <<writerVars, snifferVars, attrVars, otherVars>>

(***************************************************************************)
(* The streams read: every sequence of at most MaxLines lines drawn from   *)
(* data lines of several SEQIDs (two distinct features for some), a        *)
(* comment, a blank line and a line with too few columns.  The SEQID 'nan' *)
(* is a legal GFF3 identifier that float() accepts.                        *)
(***************************************************************************)
Tab == <<"\t">>
Newline == <<"\n">>

DataLine(seqid, start, end, score, attr) ==
    Join(Tab, <<seqid, <<".">>, <<"t">>, start, end, score, <<"+">>, <<".">>, attr>>)
        \o Newline

IdA == <<"A">>
IdB == <<"B">>
IdC == <<"C">>
IdNan == <<"n", "a", "n">>

AttrX == <<"I", "=", "x">>
AttrY == <<"I", "=", "y">>

LineA1 == DataLine(IdA, <<"1">>, <<"2">>, <<"5">>, AttrX)
LineA2 == DataLine(IdA, <<"3">>, <<"4">>, <<"4">>, AttrY)
LineB1 == DataLine(IdB, <<"1">>, <<"2">>, <<"5">>, AttrX)
LineC1 == DataLine(IdC, <<"1">>, <<"2">>, <<".">>, AttrX)
LineN1 == DataLine(IdNan, <<"1">>, <<"2">>, <<"5">>, AttrX)
LineN2 == DataLine(IdNan, <<"3">>, <<"4">>, <<"4">>, AttrY)
CommentLine == <<"#", "c">> \o Newline
BlankLine == Newline
ShortLine == Join(Tab, <<IdA, <<".">>, <<"t">>>>) \o Newline
HeaderLine == GffVersionHeader \o Newline

DataLines == {LineA1, LineA2, LineB1, LineC1, LineN1, LineN2}
Lines == DataLines \cup {CommentLine, BlankLine, ShortLine}

SeqsUpTo(S, n) == UNION {[1..k -> S] : k \in 0..n}

Streams == SeqsUpTo(Lines, MaxLines)

NoResult == [kind |-> "none", value |-> <<>>]
NoAttr == [flat |-> FALSE, tags |-> <<>>, vals |-> <<>>]

ParserStart ==
    /\ pos = 0 /\ seqID = PyFalse /\ features = <<>> /\ yielded = <<>>
    /\ pc = "loop" /\ result = NoResult /\ round = 1

ParserIdle ==
    /\ fh = <<>> /\ pos = 0 /\ seqID = PyFalse /\ features = <<>> /\ yielded = <<>>
    /\ pc = "idle" /\ reader = "generator" /\ rec_num = 0 /\ result = NoResult
    /\ round = 1

WriterIdle == obj = Construct(<<>>) /\ widx = 0 /\ sink = <<>> /\ wpc = "idle"

SnifferIdle ==
    /\ module = "gff3" /\ optimize = FALSE /\ count = 0 /\ spos = 0
    /\ spc = "idle" /\ sresult = "none"

AttrIdle ==
    /\ attr_s = <<>> /\ attr_val = NoAttr /\ attr_text = <<>> /\ attr_again = NoAttr
    /\ apc = "idle"

NoCoerced == [kind |-> "none", value |-> PyFalse]
CoerceIdle == tok = <<>> /\ coerced = NoCoerced

\* a path that does not exist
NoFile == [kind |-> "absent", rows |-> <<>>, indexed |-> FALSE]
NoCall == [fp |-> <<>>, in_fps |-> <<>>, overwrite |-> FALSE, append |-> FALSE]
NoReturn == [kind |-> "none", n |-> 0]

OverwriteIdle == ow_args = NoCall /\ ow_result = "none"
PrepareDbIdle == force = FALSE /\ dpc = "idle" /\ fetched = <<>> /\ dresult = "none"
MetadataIdle == pm_runs = 0 /\ pm_args = NoCall /\ pm_result = NoReturn
NoSort == [overwrite |-> FALSE, seqs |-> <<>>, rows |-> <<>>]
SortIdle ==
    /\ su_args = NoSort /\ su_cwd = <<>> /\ su_files = <<>> /\ su_idx = 0 /\ su_pc = "idle"
UtilIdle ==
    /\ fs = <<>> /\ fs0 = <<>> /\ OverwriteIdle /\ PrepareDbIdle /\ MetadataIdle
    /\ SortIdle

\* a parameter that is off (Value is None)
ParamOff == [on |-> FALSE, value |-> <<>>, interned |-> FALSE]
NoParams == [g |-> ParamOff, k |-> FALSE, T |-> FALSE, l |-> FALSE, m |-> FALSE, n |-> FALSE]
SignalPIdle ==
    /\ sp_params = NoParams /\ sp_data = <<>>
    /\ sp_result = [kind |-> "none", paths |-> <<>>] /\ sp_pc = "idle"

OtherIdle == CoerceIdle /\ UtilIdle /\ SignalPIdle

(***************************************************************************)
(* Spec: the two readers of gff3.py over one stream.                       *)
(***************************************************************************)
Init ==
    /\ fh \in Streams
    /\ \/ reader = "generator" /\ rec_num = 0
       \/ reader = "metadata" /\ rec_num \in 1..MaxRecNum
    /\ ParserStart
    /\ WriterIdle /\ SnifferIdle /\ AttrIdle /\ OtherIdle

Next == SkipLine \/ BadLine \/ Accumulate \/ YieldRecord \/ EndOfStream

Spec == Init /\ [][Next]_vars

(***************************************************************************)
(* _parse_records as a whole: the records the generator yields when it is  *)
(* run to its end, and whether it ended in an IndexError.                  *)
(***************************************************************************)
RECURSIVE ParseFrom(_, _, _, _)
ParseFrom(f, sid, feats, out) ==
    IF f = <<>> THEN [out |-> Append(out, feats), err |-> FALSE]
    ELSE LET line == Strip(Head(f))
             tabs == Tabs(line)
         IN  IF Skipped(line) THEN ParseFrom(Tail(f), sid, feats, out)
             ELSE IF Raises(tabs) THEN [out |-> out, err |-> TRUE]
             ELSE IF SameSeqID(Annot(tabs)[1], sid)
             THEN ParseFrom(Tail(f), Annot(tabs)[1],
                            DictSet(feats, Annotation(tabs), Intervals(tabs)), out)
             ELSE ParseFrom(Tail(f), PyFalse,
                            DictSet(<<>>, Annotation(tabs), Intervals(tabs)),
                            Append(out, feats))

LazySequence(f) == ParseFrom(f, PyFalse, <<>>, <<>>)

(***************************************************************************)
(* What the claims speak of: the data lines of a stream, their SEQID as    *)
(* written, and the maximal runs of consecutive data lines of one SEQID.   *)
(***************************************************************************)
RECURSIVE DataRows(_)
DataRows(f) ==
    IF f = <<>> THEN <<>>
    ELSE (IF Skipped(Strip(Head(f))) THEN <<>> ELSE <<Strip(Head(f))>>)
         \o DataRows(Tail(f))

WellFormed(f) == \A i \in 1..Len(DataRows(f)) : Len(Tabs(DataRows(f)[i])) = 9

RowSeqId(row) == Tabs(row)[1]

\* every SEQID of the stream stays a string under _parse_required
StringSeqIds(f) ==
    \A i \in 1..Len(DataRows(f)) : ParseRequired(RowSeqId(DataRows(f)[i])).t = "str"

RECURSIVE Runs(_)
Runs(rows) ==
    IF rows = <<>> THEN <<>>
    ELSE LET rest == Runs(Tail(rows))
         IN  IF rest # <<>> /\ RowSeqId(Head(rest)[1]) = RowSeqId(Head(rows))
             THEN <<<<Head(rows)>> \o Head(rest)>> \o Tail(rest)
             ELSE <<<<Head(rows)>>>> \o rest

RowEntry(row) == [k |-> Annotation(Tabs(row)), v |-> Intervals(Tabs(row))]
EntrySet(record) == {record[i] : i \in 1..Len(record)}
RunEntries(run) == {RowEntry(run[i]) : i \in 1..Len(run)}

SingleSeqId(record) ==
    \A i, j \in 1..Len(record) : record[i].k["SEQID"] = record[j].k["SEQID"]

(***************************************************************************)
(* C1: for every stream of well-formed data lines, every record that       *)
(* _parse_records yields holds Features of a single SEQID, and the records *)
(* yielded are exactly the maximal runs of consecutive data lines of equal *)
(* SEQID.  (Stated here for the streams whose SEQIDs stay strings.)        *)
(***************************************************************************)
C1_RecordsAreMaximalRuns ==
    (reader = "generator" /\ WellFormed(fh) /\ StringSeqIds(fh)) =>
        /\ \A i \in 1..Len(yielded) : SingleSeqId(yielded[i])
        /\ (pc = "done" /\ DataRows(fh) # <<>>) =>
              LET runs == Runs(DataRows(fh))
              IN  /\ Len(yielded) = Len(runs)
                  /\ \A i \in 1..Len(runs) : EntrySet(yielded[i]) = RunEntries(runs[i])

(***************************************************************************)
(* C2: a stream whose data lines (one or more, distinct Features) all      *)
(* carry the same SEQID yields exactly one record, holding the (Feature,   *)
(* Interval) pair of every data line, and _gff_to_generator produces       *)
(* exactly one IntervalMetadata for it.                                    *)
(***************************************************************************)
SameSeqIdStream(f) ==
    /\ WellFormed(f)
    /\ DataRows(f) # <<>>
    /\ \A i \in 1..Len(DataRows(f)) : RowSeqId(DataRows(f)[i]) = RowSeqId(DataRows(f)[1])

C2_OneRecordPerSeqId ==
    (reader = "generator" /\ pc = "done" /\ SameSeqIdStream(fh)) =>
        /\ Len(yielded) = 1
        /\ EntrySet(yielded[1]) = RunEntries(DataRows(fh))
        /\ Len(result.value) = 1

\* a comment line (leading '#') or a blank line
CommentOrBlank(line) ==
    \/ \A i \in 1..Len(line) : line[i] \in Whitespace
    \/ line[1] = "#"

\* the stream with its comment and blank lines removed
WithoutComments(f) == SelectSeq(f, LAMBDA line : ~CommentOrBlank(line))

(***************************************************************************)
(* C20: comment lines and blank lines do not affect grouping: for every    *)
(* stream, the records _parse_records yields (and whether it ends in an    *)
(* error) are those it yields for the same stream with all comment and     *)
(* blank lines removed, wherever those lines stand.                        *)
(***************************************************************************)
C20_CommentsDoNotAffectGrouping ==
    (reader = "generator" /\ round = 1 /\ pc \in {"done", "error"}) =>
        LET bare == LazySequence(WithoutComments(fh))
        IN  /\ yielded = bare.out
            /\ (pc = "error") <=> bare.err

\* a comment between two data lines of different SEQIDs
C20_Witness ==
    /\ reader = "generator" /\ pc = "done"
    /\ fh = <<LineA1, CommentLine, LineB1>>
    /\ Len(yielded) = 2

\* the stream has no data line: it is empty, or blank and comment lines only
NoDataLine(f) == \A i \in 1..Len(f) : CommentOrBlank(f[i])

(***************************************************************************)
(* C21: at the end of the stream _parse_records yields the record          *)
(* accumulated so far, so a parse that reaches the end has yielded at      *)
(* least one record, the last being the accumulating one; a yielded record *)
(* is empty exactly when the stream has no data line, and then that empty  *)
(* record is the only one yielded.                                         *)
(***************************************************************************)
C21_FinalYield ==
    /\ (reader = "generator" /\ pc = "done") =>
          /\ Len(yielded) >= 1
          /\ yielded[Len(yielded)] = features
          /\ NoDataLine(fh) => yielded = << <<>> >>
    /\ \A i \in 1..Len(yielded) : (yielded[i] = <<>>) <=> NoDataLine(fh)

\* a stream of a comment and a blank line, parsed to its end
C21_Witness ==
    /\ reader = "generator" /\ pc = "done"
    /\ fh = <<CommentLine, BlankLine>>
    /\ yielded = << <<>> >>

\* line is neither blank nor a comment and has fewer than 9 columns once stripped
TooFewColumns(line) ==
    /\ ~CommentOrBlank(line)
    /\ Len(Split(Strip(line), "\t")) < 9

\* some line of the stream has too few columns
HasShortLine(f) == \E i \in 1..Len(f) : TooFewColumns(f[i])

\* the first such line of the stream
FirstShortLine(f) ==
    CHOOSE i \in 1..Len(f) : TooFewColumns(f[i]) /\ \A j \in 1..(i - 1) : ~TooFewColumns(f[j])

(***************************************************************************)
(* C22: a line that is neither a comment nor blank and has fewer than 9    *)
(* tab-separated columns after stripping makes the parse fail with an      *)
(* IndexError at that line: once the parser has read it, the parse is in   *)
(* error, stopped at that line, and the records yielded are those of the   *)
(* lines before it; the line is not skipped.                               *)
(***************************************************************************)
C22_ShortLineIsFatal ==
    (round = 1 /\ HasShortLine(fh) /\ pos >= FirstShortLine(fh)) =>
        /\ pc = "error"
        /\ result.kind = "IndexError"
        /\ pos = FirstShortLine(fh)
        /\ Append(yielded, features) =
              LazySequence(SubSeq(fh, 1, FirstShortLine(fh) - 1)).out

\* a short line between two data lines, read by the lazy reader
C22_Witness ==
    /\ reader = "generator" /\ pc = "error" /\ result.kind = "IndexError"
    /\ fh = <<LineA1, ShortLine, LineB1>>
    /\ pos = 2 /\ yielded = <<>>

(***************************************************************************)
(* SpecGroups: the lazy reader over streams whose data lines repeat a      *)
(* Feature with another interval: LineA3 carries the Feature of LineA1,    *)
(* and LineS1 and LineS2 carry a SCORE 'nan', which float() accepts and    *)
(* which compares unequal to itself.                                       *)
(***************************************************************************)
ScoreNan == <<"n", "a", "n">>
LineA3 == DataLine(IdA, <<"3">>, <<"4">>, <<"5">>, AttrX)
LineS1 == DataLine(IdA, <<"1">>, <<"2">>, ScoreNan, AttrX)
LineS2 == DataLine(IdA, <<"3">>, <<"4">>, ScoreNan, AttrX)
GroupLines == {LineA1, LineA2, LineA3, LineS1, LineS2, LineB1, CommentLine, ShortLine}

InitGroups ==
    /\ fh \in SeqsUpTo(GroupLines, MaxLines)
    /\ reader = "generator" /\ rec_num = 0
    /\ ParserStart
    /\ WriterIdle /\ SnifferIdle /\ AttrIdle /\ OtherIdle

SpecGroups == InitGroups /\ [][Next]_vars

\* the data lines read so far, grouped by the record that was accumulating
\* when each was read (the test of gff3.py:233)
RECURSIVE GroupsFrom(_, _, _, _)
GroupsFrom(f, sid, cur, out) ==
    IF f = <<>> THEN Append(out, cur)
    ELSE LET line == Strip(Head(f))
         IN  IF Skipped(line) THEN GroupsFrom(Tail(f), sid, cur, out)
             ELSE IF SameSeqID(Annot(Tabs(line))[1], sid)
             THEN GroupsFrom(Tail(f), Annot(Tabs(line))[1], Append(cur, line), out)
             ELSE GroupsFrom(Tail(f), PyFalse, <<line>>, Append(out, cur))

Groups(f) == GroupsFrom(f, PyFalse, <<>>, <<>>)

\* lines i and j of a group carry the same Feature: the same object, or
\* Features that compare equal as dict keys
SameFeature(group, i, j) ==
    i = j \/ FeatEq(Annotation(Tabs(group[i])), Annotation(Tabs(group[j])))

\* the last line of the group that carries the Feature of line i
LastCarrying(group, i) ==
    CHOOSE j \in 1..Len(group) :
        /\ SameFeature(group, i, j)
        /\ \A m \in 1..Len(group) : SameFeature(group, i, m) => m <= j

\* record holds the Feature of every line of the group, mapped to the
\* interval of the last line carrying it, one entry per distinct Feature
RecordOfGroup(record, group) ==
    /\ \A i \in 1..Len(group) :
          \E e \in 1..Len(record) :
              /\ \/ record[e].k = Annotation(Tabs(group[i]))
                 \/ FeatEq(record[e].k, Annotation(Tabs(group[i])))
              /\ record[e].v = Intervals(Tabs(group[LastCarrying(group, i)]))
    /\ Len(record) = Cardinality({LastCarrying(group, i) : i \in 1..Len(group)})

(***************************************************************************)
(* C24: no data line is lost by the record parser: the Feature of every    *)
(* data line read is a key of the record that was accumulating when it was *)
(* read, and every record (yielded or accumulating) maps each distinct     *)
(* Feature of its group's lines to the interval of the last line of the    *)
(* group carrying that Feature, with one entry per distinct Feature.       *)
(***************************************************************************)
C24_NoLineLost ==
    (reader = "generator" /\ pc \in {"loop", "done"}) =>
        LET groups == Groups(SubSeq(fh, 1, pos))
            records == IF pc = "done" THEN yielded ELSE Append(yielded, features)
        IN  /\ Len(records) = Len(groups)
            /\ \A i \in 1..Len(groups) : RecordOfGroup(records[i], groups[i])

\* two lines of one group carry the same Feature with different intervals,
\* a third line another Feature, and the record was yielded
C24_Witness ==
    /\ reader = "generator" /\ pc = "done"
    /\ fh = <<LineA1, LineA2, LineA3>>
    /\ Len(yielded) = 1 /\ Len(yielded[1]) = 2
    /\ yielded[1][1].v = Intervals(Tabs(Strip(LineA3)))

(***************************************************************************)
(* C9 as claimed: _gff_to_metadata with rec_num = n returns the n-th       *)
(* record of the lazy sequence, fails when the sequence has fewer than n   *)
(* records, and in particular fails for rec_num = 1 on a stream without    *)
(* data lines.                                                             *)
(***************************************************************************)
IsError(r) == r.kind \in {"ValueError", "IndexError"}

NthOfLazySequence ==
    LET lazy == LazySequence(fh).out
    IN  IF Len(lazy) >= rec_num
        THEN result = [kind |-> "value", value |-> <<Construct(lazy[rec_num])>>]
        ELSE IsError(result)

C9_NthRecordFailsWithoutData ==
    (reader = "metadata" /\ pc \in {"closed", "error"}) =>
        /\ NthOfLazySequence
        /\ (rec_num = 1 /\ DataRows(fh) = <<>>) => IsError(result)

(***************************************************************************)
(* C9, amended: _gff_to_metadata with rec_num = n returns the n-th record  *)
(* of the lazy sequence and fails when the sequence has fewer than n       *)
(* records; a stream without data lines yields one empty record, so        *)
(* rec_num = 1 returns that empty record and only rec_num >= 2 fails.      *)
(***************************************************************************)
C9_NthRecord ==
    (reader = "metadata" /\ pc \in {"closed", "error"}) =>
        /\ NthOfLazySequence
        /\ DataRows(fh) = <<>> =>
              IF rec_num = 1
              THEN result = [kind |-> "value", value |-> <<Construct(<<>>)>>]
              ELSE IsError(result)

C9_Witness ==
    /\ reader = "metadata" /\ rec_num = 2 /\ pc = "closed"
    /\ result.kind = "value"
    /\ Len(result.value[1].features) = 2
    /\ Len(yielded) = 2

(***************************************************************************)
(* _attr_to_list: a pair of tuples is zipped and joined as                 *)
(* tag1=value1;tag2=value2;...; a flat (tag, value) pair as tag=value.     *)
(***************************************************************************)
Equals == <<"=">>
Semicolon == <<";">>

AttrToListTagsOnly(attr_list) ==
    IF ~attr_list.flat
    THEN Join(Semicolon,
              [i \in 1..Min(Len(attr_list.tags), Len(attr_list.vals)) |-> attr_list.tags[i]])
    ELSE attr_list.tags[1]

AttrToList(attr_list) ==
    IF ~attr_list.flat
    THEN Join(Semicolon,
              [i \in 1..Min(Len(attr_list.tags), Len(attr_list.vals)) |->
                  Join(Equals, <<attr_list.tags[i], attr_list.vals[i]>>)])
    ELSE Join(Equals, <<attr_list.tags[1], attr_list.vals[1]>>)

(***************************************************************************)
(* _IntervalMetadata_to_gff: the header line first, then per entry of      *)
(* obj.features the three checks and the line.                             *)
(***************************************************************************)
EntryErrorFewerOnly(entry) ==
    IF Cardinality(DOMAIN entry.k) < 7 THEN "columns"
    ELSE IF Len(entry.v) # 2 THEN "interval"
    ELSE IF ~(\A i \in 1..Len(AnnotationHeaders) : AnnotationHeaders[i] \in DOMAIN entry.k)
    THEN "names"
    ELSE "none"

\* the first of the three checks that fails, or "none"
EntryError(entry) ==
    IF Cardinality(DOMAIN entry.k) # 7 THEN "columns"
    ELSE IF Len(entry.v) # 2 THEN "interval"
    ELSE IF ~(\A i \in 1..Len(AnnotationHeaders) : AnnotationHeaders[i] \in DOMAIN entry.k)
    THEN "names"
    ELSE "none"

\* tab[i] for the header annot
Column(entry, annot) ==
    IF annot = "START" THEN Str(entry.v[1])
    ELSE IF annot = "END" THEN Str(entry.v[2])
    ELSE IF annot = "ATTR" THEN AttrToList(entry.k[annot])
    ELSE Str(entry.k[annot])

GffLine(entry) ==
    Join(Tab, [i \in 1..Len(GffHeaders) |-> Column(entry, GffHeaders[i])]) \o Newline

WriteHeader ==
    /\ wpc = "start"
    /\ sink' = Append(sink, HeaderLine)
    /\ wpc' = "loop"
    /\ UNCHANGED <<obj, widx>>
    /\ UNCHANGED <<parserVars, snifferVars, attrVars, otherVars>>

WriteEntry ==
    /\ wpc = "loop" /\ widx < Len(obj.features)
    /\ EntryError(obj.features[widx + 1]) = "none"
    /\ sink' = Append(sink, GffLine(obj.features[widx + 1]))
    /\ widx' = widx + 1
    /\ UNCHANGED <<obj, wpc>>
    /\ UNCHANGED <<parserVars, snifferVars, attrVars, otherVars>>

\* raise GFFFormatError
WriteFail ==
    /\ wpc = "loop" /\ widx < Len(obj.features)
    /\ EntryError(obj.features[widx + 1]) # "none"
    /\ wpc' = "error"
    /\ UNCHANGED <<obj, widx, sink>>
    /\ UNCHANGED <<parserVars, snifferVars, attrVars, otherVars>>

WriteDone ==
    /\ wpc = "loop" /\ widx = Len(obj.features)
    /\ wpc' = "done"
    /\ UNCHANGED <<obj, widx, sink>>
    /\ UNCHANGED <<parserVars, snifferVars, attrVars, otherVars>>

(***************************************************************************)
(* The records handed to the writer: at most MaxEntries entries, of        *)
(* Features that are complete (with a flat or a zipped ATTR), lack STRAND, *)
(* carry an extra field or carry a renamed field, and of Intervals of 1, 2 *)
(* and 3 components.                                                       *)
(***************************************************************************)
FlatAttr == [flat |-> TRUE, tags |-> <<<<"I">>>>, vals |-> <<<<"x">>>>]
PairAttr == [flat |-> FALSE, tags |-> <<<<"I">>, <<"N">>>>, vals |-> <<<<"x">>, <<"y">>>>]

FeatFlat ==
    MkFeature(AnnotationHeaders,
              <<PyStr(IdA), PyStr(<<".">>), PyStr(<<"t">>), PyInt(5), PyStr(<<"+">>),
                PyStr(<<".">>), FlatAttr>>)

FeatPair ==
    MkFeature(AnnotationHeaders,
              <<PyStr(IdB), PyStr(<<".">>), PyStr(<<"t">>), PyFloat(15, 0 - 1, FALSE),
                PyStr(<<"-">>), PyInt(0), PairAttr>>)

FeatNoStrand == [k \in DOMAIN FeatFlat \ {"STRAND"} |-> FeatFlat[k]]

FeatExtra ==
    [k \in DOMAIN FeatFlat \cup {"EXTRA"} |->
        IF k = "EXTRA" THEN PyStr(<<"z">>) ELSE FeatFlat[k]]

FeatRenamed ==
    [k \in (DOMAIN FeatFlat \ {"STRAND"}) \cup {"EXTRA"} |->
        IF k = "EXTRA" THEN PyStr(<<"+">>) ELSE FeatFlat[k]]

WriterFeatures == {FeatFlat, FeatPair, FeatNoStrand, FeatExtra, FeatRenamed}

WriterIntervals ==
    {<<PyInt(1)>>, <<PyInt(1), PyInt(2)>>, <<PyInt(3), PyInt(40)>>,
     <<PyInt(1), PyInt(2), PyInt(3)>>}

WriterEntries == {[k |-> f, v |-> iv] : f \in WriterFeatures, iv \in WriterIntervals}

\* a dict holds a key once
DistinctKeys(record) ==
    \A i, j \in 1..Len(record) : i # j => ~FeatEq(record[i].k, record[j].k)

WriterInputs == {r \in SeqsUpTo(WriterEntries, MaxEntries) : DistinctKeys(r)}

(***************************************************************************)
(* SpecWriter: _IntervalMetadata_to_gff on one record.                     *)
(***************************************************************************)
InitWriter ==
    /\ obj \in {Construct(r) : r \in WriterInputs}
    /\ widx = 0 /\ sink = <<>> /\ wpc = "start"
    /\ ParserIdle /\ SnifferIdle /\ AttrIdle /\ OtherIdle

NextWriter == WriteHeader \/ WriteEntry \/ WriteFail \/ WriteDone

SpecWriter == InitWriter /\ [][NextWriter]_vars

(***************************************************************************)
(* The text in the sink, and the lines a reader of that text gets.         *)
(***************************************************************************)
RECURSIVE Concat(_)
Concat(parts) == IF parts = <<>> THEN <<>> ELSE Head(parts) \o Concat(Tail(parts))

RECURSIVE FileLinesFrom(_, _, _)
FileLinesFrom(text, i, cur) ==
    IF i > Len(text) THEN (IF cur = <<>> THEN <<>> ELSE <<cur>>)
    ELSE IF text[i] = "\n" THEN <<Append(cur, text[i])>> \o FileLinesFrom(text, i + 1, <<>>)
    ELSE FileLinesFrom(text, i + 1, Append(cur, text[i]))

\* iterating over a file: its lines, line breaks kept
FileLines(text) == FileLinesFrom(text, 1, <<>>)

(***************************************************************************)
(* C4: when the encoder fails with a format error, nothing has been        *)
(* written to the sink: neither the header line nor the lines of earlier   *)
(* valid entries.                                                          *)
(***************************************************************************)
C4_NoPartialOutput == wpc = "error" => sink = <<>>

(***************************************************************************)
(* C5: the encoder raises GFFFormatError if and only if some entry has a   *)
(* Feature whose key set is not exactly the 7 annotation headers or an     *)
(* Interval whose length is not 2; otherwise the record is written without *)
(* error.                                                                  *)
(***************************************************************************)
InvalidEntry(entry) ==
    \/ DOMAIN entry.k # SeqToSet(AnnotationHeaders)
    \/ Len(entry.v) # 2

C5_FormatErrorIff ==
    wpc \in {"done", "error"} =>
        (wpc = "error" <=> \E i \in 1..Len(obj.features) : InvalidEntry(obj.features[i]))

C5_Witness ==
    /\ wpc = "error" /\ widx = 1
    /\ DOMAIN obj.features[2].k = (SeqToSet(AnnotationHeaders) \ {"STRAND"}) \cup {"EXTRA"}
    /\ Len(obj.features[2].v) = 2

(***************************************************************************)
(* C6: for a valid record of n entries the encoder writes exactly n + 1    *)
(* lines: '##gff-version 3', then per entry, in iteration order, one line  *)
(* of exactly 9 tab-separated columns SEQID, SOURCE, TYPE, START, END,     *)
(* SCORE, STRAND, PHASE, ATTR, with START and END the interval's two       *)
(* components and ATTR the text tag1=value1;tag2=value2;...                *)
(***************************************************************************)
RECURSIVE TagValueText(_, _)
TagValueText(tags, vals) ==
    IF tags = <<>> THEN <<>>
    ELSE Head(tags) \o <<"=">> \o Head(vals)
         \o (IF Len(tags) > 1 THEN <<";">> \o TagValueText(Tail(tags), Tail(vals)) ELSE <<>>)

ExpectedColumns(entry) ==
    <<Str(entry.k["SEQID"]), Str(entry.k["SOURCE"]), Str(entry.k["TYPE"]),
      Str(entry.v[1]), Str(entry.v[2]),
      Str(entry.k["SCORE"]), Str(entry.k["STRAND"]), Str(entry.k["PHASE"]),
      TagValueText(entry.k["ATTR"].tags, entry.k["ATTR"].vals)>>

C6_WrittenLines ==
    wpc = "done" =>
        LET lines == FileLines(Concat(sink))
            n == Len(obj.features)
        IN  /\ Len(lines) = n + 1
            /\ lines[1] = GffVersionHeader \o <<"\n">>
            /\ \A i \in 1..n :
                  /\ lines[i + 1][Len(lines[i + 1])] = "\n"
                  /\ Split(SubSeq(lines[i + 1], 1, Len(lines[i + 1]) - 1), "\t")
                        = ExpectedColumns(obj.features[i])

C6_Witness ==
    /\ wpc = "done" /\ round = 1 /\ Len(sink) = 3
    /\ \E i \in 1..2 : Len(obj.features[i].k["ATTR"].tags) = 2
    /\ \E i \in 1..2 : obj.features[i].k["ATTR"].flat

(***************************************************************************)
(* SpecRoundTrip: a stream is read by _gff_to_generator, one of the        *)
(* IntervalMetadata it produced is written by _IntervalMetadata_to_gff,    *)
(* and the text written is read again.                                     *)
(***************************************************************************)
StartWrite ==
    /\ round = 1 /\ pc = "done" /\ wpc = "idle"
    /\ \E i \in 1..Len(result.value) : obj' = result.value[i]
    /\ wpc' = "start"
    /\ UNCHANGED <<widx, sink>>
    /\ UNCHANGED <<parserVars, snifferVars, attrVars, otherVars>>

Reparse ==
    /\ round = 1 /\ wpc = "done"
    /\ fh' = FileLines(Concat(sink))
    /\ pos' = 0 /\ seqID' = PyFalse /\ features' = <<>> /\ yielded' = <<>>
    /\ pc' = "loop" /\ result' = NoResult /\ round' = 2
    /\ UNCHANGED <<reader, rec_num>>
    /\ UNCHANGED <<writerVars, snifferVars, attrVars, otherVars>>

InitRoundTrip ==
    /\ fh \in Streams
    /\ reader = "generator" /\ rec_num = 0
    /\ ParserStart
    /\ WriterIdle /\ SnifferIdle /\ AttrIdle /\ OtherIdle

NextRoundTrip ==
    \/ SkipLine \/ BadLine \/ Accumulate \/ YieldRecord \/ EndOfStream
    \/ StartWrite \/ WriteHeader \/ WriteEntry \/ WriteDone \/ Reparse

SpecRoundTrip == InitRoundTrip /\ [][NextRoundTrip]_vars

(***************************************************************************)
(* C3: round trip.  For every record R yielded by parsing a well-formed    *)
(* stream, writing R and re-parsing the written text yields R as one       *)
(* record: a single record whose set of (Feature, Interval) pairs equals   *)
(* that of R.  (Stated here for the records whose SEQIDs are strings.)     *)
(***************************************************************************)
ValuesEq(a, b) == Len(a) = Len(b) /\ \A i \in 1..Len(a) : PyEq(a[i], b[i])
PairEq(x, y) == FeatEq(x.k, y.k) /\ ValuesEq(x.v, y.v)

SamePairs(r1, r2) ==
    /\ \A i \in 1..Len(r1) : \E j \in 1..Len(r2) : PairEq(r1[i], r2[j])
    /\ \A j \in 1..Len(r2) : \E i \in 1..Len(r1) : PairEq(r1[i], r2[j])

C3_RoundTrip ==
    (/\ round = 2 /\ pc = "done"
     /\ \A i \in 1..Len(obj.features) : obj.features[i].k["SEQID"].t = "str") =>
        /\ Len(yielded) = 1
        /\ SamePairs(yielded[1], obj.features)

(***************************************************************************)
(* _gff_sniffer, of gff3.py and of gff.py.  Both first run                 *)
(* _too_many_blanks(fh, 5), which counts the leading lines that are empty  *)
(* once stripped, gives up when it has counted more than 5 and rewinds the *)
(* stream; then they take the first line that is neither empty nor all     *)
(* whitespace (not stripped).  gff3.py tests it for '##gff-version 3';     *)
(* gff.py asserts that it starts with '##' and catches GFFFormatError      *)
(* only, so a failed assert leaves as AssertionError (and is skipped when  *)
(* assert statements are compiled out).                                    *)
(***************************************************************************)
MaxBlanks == 5

ExceedsOneMore(c) == c > MaxBlanks + 1

\* _too_many_blanks: count > max_blanks
Exceeds(c) == c > MaxBlanks

SniffDecisionStripped(line) == StartsWith(Strip(line), GffVersionHeader)

\* gff3.py: line.startswith('##gff-version 3')
SniffDecision(line) == StartsWith(line, GffVersionHeader)

\* gff.py: line.startswith('##')
GffMarker(line) == StartsWith(line, <<"#", "#">>)

\* skip_blanks: line.isspace() or not line
SkippedBlank(line) == IF line = <<>> THEN TRUE ELSE IsSpace(line)

\* _too_many_blanks: a blank line is counted
BlankCounted ==
    /\ spc = "blanks" /\ spos < Len(fh)
    /\ Strip(fh[spos + 1]) = <<>>
    /\ count' = count + 1
    /\ spos' = spos + 1
    /\ IF Exceeds(count + 1)
       THEN spc' = "returned" /\ sresult' = "False"
       ELSE UNCHANGED <<spc, sresult>>
    /\ UNCHANGED <<module, optimize>>
    /\ UNCHANGED <<parserVars, writerVars, attrVars, otherVars>>

\* _too_many_blanks: a line with text, or the end, ends the count; fh.seek(0)
BlanksChecked ==
    /\ spc = "blanks"
    /\ IF spos = Len(fh) THEN TRUE ELSE Strip(fh[spos + 1]) # <<>>
    /\ spc' = "next"
    /\ spos' = 0
    /\ UNCHANGED <<module, optimize, count, sresult>>
    /\ UNCHANGED <<parserVars, writerVars, attrVars, otherVars>>

\* _line_generator(fh, skip_blanks=True, strip=False) skips a blank line
SkipBlank ==
    /\ spc = "next" /\ spos < Len(fh)
    /\ SkippedBlank(fh[spos + 1])
    /\ spos' = spos + 1
    /\ UNCHANGED <<module, optimize, count, spc, sresult>>
    /\ UNCHANGED <<parserVars, writerVars, attrVars, otherVars>>

\* next() raises StopIteration
NoLine ==
    /\ spc = "next" /\ spos = Len(fh)
    /\ spc' = "returned" /\ sresult' = "False"
    /\ UNCHANGED <<module, optimize, count, spos>>
    /\ UNCHANGED <<parserVars, writerVars, attrVars, otherVars>>

\* the first real line decides
SniffLine ==
    /\ spc = "next" /\ spos < Len(fh)
    /\ ~SkippedBlank(fh[spos + 1])
    /\ LET line == fh[spos + 1]
       IN  IF module = "gff3"
           THEN /\ spc' = "returned"
                /\ sresult' = IF SniffDecision(line) THEN "True" ELSE "False"
           ELSE IF GffMarker(line) \/ optimize
           THEN spc' = "returned" /\ sresult' = "True"
           ELSE spc' = "raised" /\ sresult' = "AssertionError"
    /\ spos' = spos + 1
    /\ UNCHANGED <<module, optimize, count>>
    /\ UNCHANGED <<parserVars, writerVars, attrVars, otherVars>>

(***************************************************************************)
(* The streams sniffed: up to MaxLeadingBlanks blank lines, then up to two *)
(* lines among the header, an indented header, a longer version number, a  *)
(* '##' comment, a data line, an empty and a whitespace-only line.         *)
(***************************************************************************)
SpaceLine == <<" ">> \o Newline
IndentedHeaderLine == <<" ">> \o HeaderLine
LongVersionLine == GffVersionHeader \o <<"0">> \o Newline
MarkerLine == <<"#", "#", "x">> \o Newline

SniffLines ==
    {HeaderLine, IndentedHeaderLine, LongVersionLine, MarkerLine, LineA1, BlankLine,
     SpaceLine}

SniffStreams ==
    {[i \in 1..k |-> BlankLine] \o tail :
        k \in 0..MaxLeadingBlanks, tail \in SeqsUpTo(SniffLines, 2)}

InitSniffer ==
    /\ fh \in SniffStreams
    /\ \/ module = "gff3" /\ optimize = FALSE
       \/ module = "gff" /\ optimize \in BOOLEAN
    /\ count = 0 /\ spos = 0 /\ spc = "blanks" /\ sresult = "none"
    /\ pos = 0 /\ seqID = PyFalse /\ features = <<>> /\ yielded = <<>>
    /\ pc = "idle" /\ reader = "generator" /\ rec_num = 0 /\ result = NoResult
    /\ round = 1
    /\ WriterIdle /\ AttrIdle /\ OtherIdle

NextSniffer == BlankCounted \/ BlanksChecked \/ SkipBlank \/ NoLine \/ SniffLine

SpecSniffer == InitSniffer /\ [][NextSniffer]_vars

(***************************************************************************)
(* What the sniffer claims speak of.                                       *)
(***************************************************************************)
RECURSIVE LeadingBlanks(_)
\* the number of leading lines that are empty once stripped
LeadingBlanks(f) ==
    IF f # <<>> /\ Strip(Head(f)) = <<>> THEN 1 + LeadingBlanks(Tail(f)) ELSE 0

TooManyBlanks(f) == LeadingBlanks(f) > MaxBlanks

IsBlank(line) == \A i \in 1..Len(line) : line[i] \in Whitespace

HasRealLine(f) == \E i \in 1..Len(f) : ~IsBlank(f[i])

\* the first line that is not blank, as it stands in the stream
FirstRealLine(f) == f[CHOOSE i \in 1..Len(f) : ~IsBlank(f[i]) /\ \A j \in 1..(i - 1) : IsBlank(f[j])]

BeginsWith(line, token) ==
    /\ Len(line) >= Len(token)
    /\ \A i \in 1..Len(token) : line[i] = token[i]

SnifferEnded == spc \in {"returned", "raised"}

(***************************************************************************)
(* C7: the gff3 sniffer returns (True, {}) if and only if the stream       *)
(* passes the too-many-blanks check and its first non-blank line, not      *)
(* stripped, begins with '##gff-version 3'; in every other case, an empty  *)
(* or all-blank stream included, it returns (False, {}); it never raises.  *)
(***************************************************************************)
C7_Gff3Sniffer ==
    (module = "gff3" /\ SnifferEnded) =>
        /\ spc = "returned"
        /\ sresult \in {"True", "False"}
        /\ sresult = "True" <=>
              /\ ~TooManyBlanks(fh)
              /\ HasRealLine(fh)
              /\ BeginsWith(FirstRealLine(fh), GffVersionHeader)

C7_Witness ==
    /\ module = "gff3" /\ spc = "returned" /\ sresult = "True"
    /\ count = MaxBlanks /\ spos = MaxBlanks + 1

\* the stream has at least k lines and its first k lines are all blank
FirstLinesBlank(f, k) == Len(f) >= k /\ \A i \in 1..k : IsBlank(f[i])

\* a header line follows the first k lines
HeaderFollows(f, k) == Len(f) > k /\ f[k + 1] = HeaderLine

C8_GffSnifferNegative ==
    (module = "gff" /\ SnifferEnded) =>
        /\ spc = "returned"
        /\ (HasRealLine(fh) /\ ~GffMarker(FirstRealLine(fh))) => sresult = "False"
        /\ (fh # <<>> /\ GffMarker(fh[1])) => sresult = "True"

(***************************************************************************)
(* SpecAttr: an attribute column is decoded by _parse_attr and the result  *)
(* encoded again by _attr_to_list.  The inputs are all strings of at most  *)
(* MaxAttrLen characters over a letter, '=', ';' and a blank.              *)
(***************************************************************************)
AttrChars == {"a", "=", ";", " "}

AttrStrings == SeqsUpTo(AttrChars, MaxAttrLen)

DecodeAttr ==
    /\ apc = "start"
    /\ attr_val' = ParseAttr(attr_s)
    /\ apc' = "parsed"
    /\ UNCHANGED <<attr_s, attr_text, attr_again>>
    /\ UNCHANGED <<parserVars, writerVars, snifferVars, otherVars>>

EncodeAttr ==
    /\ apc = "parsed"
    /\ attr_text' = AttrToList(attr_val)
    /\ apc' = "encoded"
    /\ UNCHANGED <<attr_s, attr_val, attr_again>>
    /\ UNCHANGED <<parserVars, writerVars, snifferVars, otherVars>>

\* _parse_attr applied to the string _attr_to_list produced
DecodeAgain ==
    /\ apc = "encoded"
    /\ attr_again' = ParseAttr(attr_text)
    /\ apc' = "reparsed"
    /\ UNCHANGED <<attr_s, attr_val, attr_text>>
    /\ UNCHANGED <<parserVars, writerVars, snifferVars, otherVars>>

InitAttr ==
    /\ attr_s \in AttrStrings
    /\ attr_val = NoAttr /\ attr_text = <<>> /\ attr_again = NoAttr /\ apc = "start"
    /\ ParserIdle /\ WriterIdle /\ SnifferIdle /\ OtherIdle

NextAttr == DecodeAttr \/ EncodeAttr \/ DecodeAgain

SpecAttr == InitAttr /\ [][NextAttr]_vars

(***************************************************************************)
(* C10: for every attribute string of the form tag=value(;tag=value)*      *)
(* whose tags and values hold no ';', no '=' and no leading or trailing    *)
(* whitespace, _parse_attr yields the tags and the values in input order,  *)
(* and _attr_to_list of that pair reproduces the string exactly.           *)
(***************************************************************************)
Count(s, c) == Cardinality({i \in 1..Len(s) : s[i] = c})

\* the text of field up to its '=' (tag) and after it (value)
TagOf(field) == SubSeq(field, 1, (CHOOSE i \in 1..Len(field) : field[i] = "=") - 1)
ValueOf(field) ==
    SubSeq(field, (CHOOSE i \in 1..Len(field) : field[i] = "=") + 1, Len(field))

Trimmed(s) == s = <<>> \/ (s[1] \notin Whitespace /\ s[Len(s)] \notin Whitespace)

WellFormedAttr(s) ==
    \A i \in 1..Len(Split(s, ";")) :
        LET field == Split(s, ";")[i]
        IN  /\ Count(field, "=") = 1
            /\ Trimmed(TagOf(field))
            /\ Trimmed(ValueOf(field))

FirstEquals(field) ==
    CHOOSE i \in 1..Len(field) : field[i] = "=" /\ \A j \in 1..(i - 1) : field[j] # "="

(***************************************************************************)
(* C18: the attribute decoder splits each ';'-separated sub-field on the   *)
(* first '=' only: a sub-field with one or more '=' decodes to the text    *)
(* before the first '=' as tag and the text after it as value, both        *)
(* stripped of surrounding whitespace ('Note=a=b' gives 'Note', 'a=b').    *)
(***************************************************************************)
C18_SplitOnFirstEquals ==
    apc \in {"parsed", "encoded"} =>
        LET fields == Split(attr_s, ";")
        IN  \A i \in 1..Len(fields) :
                Count(fields[i], "=") >= 1 =>
                    /\ i <= Len(attr_val.tags) /\ i <= Len(attr_val.vals)
                    /\ attr_val.tags[i] =
                          Strip(SubSeq(fields[i], 1, FirstEquals(fields[i]) - 1))
                    /\ attr_val.vals[i] =
                          Strip(SubSeq(fields[i], FirstEquals(fields[i]) + 1, Len(fields[i])))

MaxTokenLen == 3

TokenChars == {"1", "2", ".", "e", "-", "n", "a", " ", SuperscriptTwo}
Tokens == SeqsUpTo(TokenChars, MaxTokenLen)

\* _parse_required returns
CoerceReturn ==
    /\ coerced.kind = "none"
    /\ ParseRequired(tok) # PyValueError
    /\ coerced' = [kind |-> "returned", value |-> ParseRequired(tok)]
    /\ UNCHANGED <<tok, gffVars, utilVars, signalpVars>>

\* int(s) raises ValueError out of _parse_required
CoerceRaise ==
    /\ coerced.kind = "none"
    /\ ParseRequired(tok) = PyValueError
    /\ coerced' = [kind |-> "ValueError", value |-> PyFalse]
    /\ UNCHANGED <<tok, gffVars, utilVars, signalpVars>>

InitCoerce ==
    /\ tok \in Tokens /\ coerced = NoCoerced
    /\ ParserIdle /\ WriterIdle /\ SnifferIdle /\ AttrIdle
    /\ UtilIdle /\ SignalPIdle

NextCoerce == CoerceReturn \/ CoerceRaise

SpecCoerce == InitCoerce /\ [][NextCoerce]_vars

\* the token consists only of decimal digits
OnlyDecimalDigits(s) == s # <<>> /\ \A i \in 1..Len(s) : s[i] \in DigitSet

(***************************************************************************)
(* C11: _parse_required turns every raw token into exactly one of three    *)
(* outcomes: an integer when the token consists only of decimal digits,    *)
(* otherwise a float when the token parses as a floating-point literal,    *)
(* otherwise the token itself, unchanged, as a string.                     *)
(***************************************************************************)
C11_Coercion ==
    coerced.kind # "none" =>
        /\ coerced.kind = "returned"
        /\ IF OnlyDecimalDigits(tok) THEN coerced.value = PyInt(StrToNat(tok))
           ELSE IF IsFloat(tok) THEN coerced.value.t \in {"float", "inf", "nan"}
           ELSE coerced.value = PyStr(tok)


(***************************************************************************)
(* The file system.  A path is the sequence of its components; fs maps     *)
(* each path of interest to what is there: nothing, a file or a directory. *)
(* A file carries rows: the entries of an XML file, or the rows of the     *)
(* metadata table of a database file.                                      *)
(***************************************************************************)
AFile(rows) == [kind |-> "file", rows |-> rows, indexed |-> FALSE]
ADir == [kind |-> "dir", rows |-> <<>>, indexed |-> FALSE]

\* os.path.exists(fp)
Exists(fsys, fp) == fsys[fp].kind # "absent"

\* os.path.isdir(fp)
IsDir(fsys, fp) == fsys[fp].kind = "dir"

\* path p lies inside directory d
Under(p, d) == Len(p) > Len(d) /\ SubSeq(p, 1, Len(d)) = d

\* os.remove(fp) of a file, shutil.rmtree(fp) of a directory
Remove(fsys, fp) ==
    [p \in DOMAIN fsys |->
        IF p = fp THEN NoFile
        ELSE IF IsDir(fsys, fp) /\ Under(p, fp) THEN NoFile
        ELSE fsys[p]]

OverwriteRaisesUnlessOverwrite(fsys, fp, overwrite, append) ==
    Exists(fsys, fp) /\ ~overwrite

\* _overwrite raises FileExistsError
OverwriteRaises(fsys, fp, overwrite, append) ==
    Exists(fsys, fp) /\ ~overwrite /\ ~append

\* the file system _overwrite leaves behind
Overwrite(fsys, fp, overwrite, append) ==
    IF Exists(fsys, fp) /\ overwrite THEN Remove(fsys, fp) ELSE fsys

(***************************************************************************)
(* SpecOverwrite: one call of _overwrite on a small tree: a path d with a  *)
(* path d/f inside it, and a path g.                                       *)
(***************************************************************************)
PathD == <<"d">>
PathDF == <<"d", "f">>
PathG == <<"g">>
OverwritePaths == {PathD, PathDF, PathG}

\* something exists inside a path only if that path is a directory
Consistent(fsys) ==
    \A p \in DOMAIN fsys : \A d \in DOMAIN fsys :
        Under(p, d) /\ Exists(fsys, p) => IsDir(fsys, d)

Trees ==
    {t \in [OverwritePaths -> {NoFile, AFile(<<>>), ADir}] : Consistent(t)}

OverwriteReturn ==
    /\ ow_result = "none" /\ ow_args # NoCall
    /\ ~OverwriteRaises(fs, ow_args.fp, ow_args.overwrite, ow_args.append)
    /\ fs' = Overwrite(fs, ow_args.fp, ow_args.overwrite, ow_args.append)
    /\ ow_result' = "returned"
    /\ UNCHANGED <<fs0, ow_args, prepareDbVars, metadataVars>>
    /\ UNCHANGED <<gffVars, coerceVars, signalpVars, sortVars>>

OverwriteRaise ==
    /\ ow_result = "none" /\ ow_args # NoCall
    /\ OverwriteRaises(fs, ow_args.fp, ow_args.overwrite, ow_args.append)
    /\ ow_result' = "FileExistsError"
    /\ UNCHANGED <<fs, fs0, ow_args, prepareDbVars, metadataVars>>
    /\ UNCHANGED <<gffVars, coerceVars, signalpVars, sortVars>>

InitOverwrite ==
    /\ fs \in Trees /\ fs0 = fs
    /\ \E fp \in OverwritePaths : \E o \in BOOLEAN : \E a \in BOOLEAN :
          ow_args = [fp |-> fp, in_fps |-> <<>>, overwrite |-> o, append |-> a]
    /\ ow_result = "none"
    /\ PrepareDbIdle /\ MetadataIdle
    /\ ParserIdle /\ WriterIdle /\ SnifferIdle /\ AttrIdle
    /\ CoerceIdle /\ SignalPIdle /\ SortIdle

NextOverwrite == OverwriteReturn \/ OverwriteRaise

SpecOverwrite == InitOverwrite /\ [][NextOverwrite]_vars

\* fp and everything inside it is gone, everything else is as it was
Removed(before, after, fp) ==
    \A p \in DOMAIN before :
        after[p] = IF p = fp \/ Under(p, fp) THEN NoFile ELSE before[p]

(***************************************************************************)
(* C12: _overwrite raises FileExistsError exactly when fp exists and       *)
(* neither overwrite nor append is set, leaving fp untouched; when fp      *)
(* exists and overwrite is set it removes fp, file or directory tree, also *)
(* when append is set too; when fp exists and only append is set it        *)
(* returns leaving fp untouched; when fp does not exist it does nothing    *)
(* and raises nothing.                                                     *)
(***************************************************************************)
C12_OverwriteGuard ==
    ow_result # "none" =>
        LET present == fs0[ow_args.fp].kind \in {"file", "dir"}
        IN  /\ (ow_result = "FileExistsError") <=>
                  (present /\ ~ow_args.overwrite /\ ~ow_args.append)
            /\ ow_result = "FileExistsError" => fs = fs0
            /\ present /\ ow_args.overwrite =>
                  ow_result = "returned" /\ Removed(fs0, fs, ow_args.fp)
            /\ present /\ ~ow_args.overwrite /\ ow_args.append =>
                  ow_result = "returned" /\ fs = fs0
            /\ ~present => ow_result = "returned" /\ fs = fs0

C12_Witness ==
    /\ ow_result = "returned" /\ ow_args.overwrite /\ ow_args.append
    /\ ow_args.fp = PathD /\ fs0[PathD].kind = "dir" /\ fs0[PathDF].kind = "file"
    /\ fs[PathD] = NoFile /\ fs[PathDF] = NoFile


(***************************************************************************)
(* prepare_metadata as a whole.  An XML file is a file whose rows are its  *)
(* <entry> elements [ac, dataset, taxon]; the database file is a file      *)
(* whose rows are the rows [ac, status, kingdom] of its metadata table,    *)
(* indexed once the unique index on ac exists.  connect() opens a          *)
(* transaction that is rolled back when the body raises.                   *)
(***************************************************************************)
StatusNames == <<"Swiss-Prot", "TrEMBL">>
KingdomNames == <<"Bacteria", "Archaea", "Viruses", "Eukaryota", "other">>

\* {k: i for i, k in enumerate(names)}[key]
MapIndex(names, key) == (CHOOSE i \in 1..Len(names) : names[i] = key) - 1

\* kingdom_map.get(kingdom, 4)
KingdomIndex(taxon) ==
    IF \E i \in 1..Len(KingdomNames) : KingdomNames[i] = taxon
    THEN MapIndex(KingdomNames, taxon) ELSE 4

\* the row inserted for one entry
MetadataRow(elem) ==
    [ac |-> elem.ac, status |-> MapIndex(StatusNames, elem.dataset),
     kingdom |-> KingdomIndex(elem.taxon)]

HasAc(rows, ac) == \E j \in 1..Len(rows) : rows[j].ac = ac

DuplicateAc(rows) ==
    \E j \in 1..Len(rows) : \E k \in 1..Len(rows) : j # k /\ rows[j].ac = rows[k].ac

\* the loop variable i before the first iteration of any inner loop
Unbound == 0 - 1

\* n += i
AddCount(n, i) == n + i

\* the inner loop over one file's entries, from entry number k on
RECURSIVE InsertEntries(_, _, _, _, _)
InsertEntries(rows, entries, k, i, indexed) ==
    IF k > Len(entries) THEN [rows |-> rows, i |-> i, kind |-> "ok"]
    ELSE IF ~(\E j \in 1..Len(StatusNames) : StatusNames[j] = entries[k].dataset)
    THEN [rows |-> rows, i |-> k, kind |-> "KeyError"]
    ELSE IF indexed /\ HasAc(rows, entries[k].ac)
    THEN [rows |-> rows, i |-> k, kind |-> "IntegrityError"]
    ELSE InsertEntries(Append(rows, MetadataRow(entries[k])), entries, k + 1, k, indexed)

\* the outer loop over in_fps
RECURSIVE ReadFiles(_, _, _, _, _, _)
ReadFiles(fsys, in_fps, rows, n, i, indexed) ==
    IF in_fps = <<>> THEN [rows |-> rows, n |-> n, kind |-> "ok"]
    ELSE IF ~Exists(fsys, Head(in_fps))
    THEN [rows |-> rows, n |-> n, kind |-> "FileNotFoundError"]
    ELSE IF IsDir(fsys, Head(in_fps))
    THEN [rows |-> rows, n |-> n, kind |-> "IsADirectoryError"]
    ELSE LET r == InsertEntries(rows, fsys[Head(in_fps)].rows, 1, i, indexed)
         IN  IF r.kind # "ok" THEN [rows |-> r.rows, n |-> n, kind |-> r.kind]
             ELSE IF r.i = Unbound
             THEN [rows |-> r.rows, n |-> n, kind |-> "UnboundLocalError"]
             ELSE ReadFiles(fsys, Tail(in_fps), r.rows, AddCount(n, r.i), r.i, indexed)

\* prepare_metadata(in_fps, db_fp, overwrite=..., append=...): the file
\* system it leaves, and what it returns or raises
PrepareMetadata(fsys, in_fps, db_fp, overwrite, append) ==
    IF OverwriteRaises(fsys, db_fp, overwrite, append)
    THEN [fs |-> fsys, kind |-> "FileExistsError", n |-> 0]
    ELSE LET f1 == Overwrite(fsys, db_fp, overwrite, append)
             old == f1[db_fp]
             r == ReadFiles(f1, in_fps, old.rows, 0, Unbound, old.indexed)
             kept == [f1 EXCEPT ![db_fp] = [kind |-> "file", rows |-> old.rows,
                                            indexed |-> old.indexed]]
         IN  IF IsDir(f1, db_fp)
             THEN [fs |-> f1, kind |-> "OperationalError", n |-> 0]
             ELSE IF r.kind # "ok" THEN [fs |-> kept, kind |-> r.kind, n |-> 0]
             ELSE IF DuplicateAc(r.rows)
             THEN [fs |-> kept, kind |-> "IntegrityError", n |-> 0]
             ELSE [fs |-> [f1 EXCEPT ![db_fp] = [kind |-> "file", rows |-> r.rows,
                                                 indexed |-> TRUE]],
                   kind |-> "returned", n |-> r.n]


(***************************************************************************)
(* SpecPrepareDb: one call of prepare_db.  Each of the three source files  *)
(* is present in the downloaded directory or not, the database file exists *)
(* or not; a download that is attempted succeeds and fetches the remote    *)
(* content, which differs from the content of a file already present.     *)
(***************************************************************************)
SprotRaw == <<"downloaded", "uniprot_sprot.xml.gz">>
TremblRaw == <<"downloaded", "uniprot_trembl.xml.gz">>
Uniref100Raw == <<"downloaded", "uniref100.fasta.gz">>
MetadataDb == <<"out_d", "uniprotkb.db">>
\* stands for the 11 files uniref100_<status>_<kingdom>.fasta of out_d
Partitions == <<"out_d", "uniref100_*.fasta">>
SourceFiles == <<SprotRaw, TremblRaw, Uniref100Raw>>
PrepareDbPaths == {SprotRaw, TremblRaw, Uniref100Raw, MetadataDb, Partitions}

Entry(ac, dataset, taxon) == [ac |-> ac, dataset |-> dataset, taxon |-> taxon]

\* what the URL of a source file serves
RemoteRows(dest) ==
    IF dest = SprotRaw THEN <<Entry("P1", "Swiss-Prot", "Bacteria")>>
    ELSE IF dest = TremblRaw THEN <<Entry("Q1", "TrEMBL", "Fungi")>>
    ELSE <<>>

\* what a source file downloaded earlier holds
LocalRows(dest) ==
    IF dest = SprotRaw THEN <<Entry("P0", "Swiss-Prot", "Archaea")>>
    ELSE IF dest = TremblRaw THEN <<Entry("Q0", "TrEMBL", "Viruses")>>
    ELSE <<>>

\* the source file prepare_db is about to download
Dest == IF dpc = "sprot" THEN SprotRaw ELSE IF dpc = "trembl" THEN TremblRaw ELSE Uniref100Raw

AfterDownload == IF dpc = "sprot" THEN "trembl" ELSE IF dpc = "trembl" THEN "uniref100" ELSE "metadata"

\* shutil.copyfileobj(urlopen(src), open(dest, 'wb'))
CopyFileObj(fsys, dest) == [fsys EXCEPT ![dest] = AFile(RemoteRows(dest))]

\* _download(src, dest, overwrite=force) returns
Download ==
    /\ dpc \in {"sprot", "trembl", "uniref100"}
    /\ ~OverwriteRaises(fs, Dest, force, FALSE)
    /\ fs' = CopyFileObj(Overwrite(fs, Dest, force, FALSE), Dest)
    /\ fetched' = Append(fetched, Dest)
    /\ dpc' = AfterDownload
    /\ UNCHANGED <<fs0, force, dresult, overwriteVars, metadataVars>>
    /\ UNCHANGED <<gffVars, coerceVars, signalpVars, sortVars>>

\* _download raises FileExistsError: except FileExistsError: pass
DownloadExists ==
    /\ dpc \in {"sprot", "trembl", "uniref100"}
    /\ OverwriteRaises(fs, Dest, force, FALSE)
    /\ dpc' = "metadata"
    /\ UNCHANGED <<fs, fs0, force, fetched, dresult, overwriteVars, metadataVars>>
    /\ UNCHANGED <<gffVars, coerceVars, signalpVars, sortVars>>

\* prepare_metadata([sprot_raw, trembl_raw], metadata_db)
CallPrepareMetadata ==
    /\ dpc = "metadata"
    /\ LET r == PrepareMetadata(fs, <<SprotRaw, TremblRaw>>, MetadataDb, FALSE, FALSE)
       IN  /\ fs' = r.fs
           /\ IF r.kind = "returned"
              THEN dpc' = "sort" /\ dresult' = dresult
              ELSE dpc' = "raised" /\ dresult' = r.kind
    /\ UNCHANGED <<fs0, force, fetched, overwriteVars, metadataVars>>
    /\ UNCHANGED <<gffVars, coerceVars, signalpVars, sortVars>>

\* sort_uniref(metadata_db, uniref100_raw, out_d, force): it opens the
\* partition files for writing, then reads the UniRef100 file
CallSortUniref ==
    /\ dpc = "sort"
    /\ fs' = [fs EXCEPT ![Partitions] = AFile(<<>>)]
    /\ IF Exists(fs, Uniref100Raw)
       THEN dpc' = "returned" /\ dresult' = "returned"
       ELSE dpc' = "raised" /\ dresult' = "FileNotFoundError"
    /\ UNCHANGED <<fs0, force, fetched, overwriteVars, metadataVars>>
    /\ UNCHANGED <<gffVars, coerceVars, signalpVars, sortVars>>

InitPrepareDb ==
    /\ fs \in [PrepareDbPaths -> {NoFile, AFile(<<>>)} \cup
                 {AFile(LocalRows(p)) : p \in PrepareDbPaths}]
    /\ \A p \in PrepareDbPaths : fs[p] \in {NoFile, AFile(LocalRows(p))}
    /\ fs[Partitions] = NoFile
    /\ fs0 = fs
    /\ force \in BOOLEAN /\ dpc = "sprot" /\ fetched = <<>> /\ dresult = "none"
    /\ OverwriteIdle /\ MetadataIdle
    /\ ParserIdle /\ WriterIdle /\ SnifferIdle /\ AttrIdle
    /\ CoerceIdle /\ SignalPIdle /\ SortIdle

NextPrepareDb == Download \/ DownloadExists \/ CallPrepareMetadata \/ CallSortUniref

SpecPrepareDb == InitPrepareDb /\ [][NextPrepareDb]_vars

Fetched(p) == \E j \in 1..Len(fetched) : fetched[j] = p

(***************************************************************************)
(* C13: in prepare_db with force=False each of the three source files is   *)
(* handled on its own: a file already present in the downloaded directory  *)
(* is used as is and not downloaded again, a file that is absent is        *)
(* downloaded, so that once the download phase is over all three files     *)
(* exist, whichever of them were present beforehand.                       *)
(***************************************************************************)
C13_IndependentDownloads ==
    ~force /\ dpc = "metadata" =>
        \A j \in 1..Len(SourceFiles) :
            LET p == SourceFiles[j]
            IN  /\ Exists(fs, p)
                /\ Exists(fs0, p) => ~Fetched(p) /\ fs[p] = fs0[p]
                /\ ~Exists(fs0, p) => Fetched(p)


(***************************************************************************)
(* SpecPrepareMetadata: up to MaxRuns calls of prepare_metadata on one     *)
(* database path, which does not exist before the first call.  Three XML   *)
(* files are at hand, with two, one and no entries; in_fps is any list of  *)
(* at most MaxFiles of them, and the keyword arguments are any.            *)
(***************************************************************************)
MaxRuns == 2
MaxFiles == 2

XmlTwo == <<"in", "two.xml.gz">>
XmlOne == <<"in", "one.xml.gz">>
XmlNone == <<"in", "none.xml.gz">>
DbFp == <<"out", "uniprotkb.db">>
XmlFiles == {XmlTwo, XmlOne, XmlNone}

MetadataFs ==
    (XmlTwo :> AFile(<<Entry("P1", "Swiss-Prot", "Bacteria"), Entry("P2", "Swiss-Prot", "Fungi")>>))
    @@ (XmlOne :> AFile(<<Entry("Q1", "TrEMBL", "Archaea")>>))
    @@ (XmlNone :> AFile(<<>>))
    @@ (DbFp :> NoFile)

\* prepare_metadata returns n
PrepareMetadataReturn ==
    /\ pm_runs < MaxRuns
    /\ \E in_fps \in SeqsUpTo(XmlFiles, MaxFiles) : \E o \in BOOLEAN : \E a \in BOOLEAN :
          LET r == PrepareMetadata(fs, in_fps, DbFp, o, a)
          IN  /\ r.kind = "returned"
              /\ fs' = r.fs
              /\ pm_args' = [fp |-> DbFp, in_fps |-> in_fps, overwrite |-> o, append |-> a]
              /\ pm_result' = [kind |-> r.kind, n |-> r.n]
    /\ fs0' = fs
    /\ pm_runs' = pm_runs + 1
    /\ UNCHANGED <<overwriteVars, prepareDbVars>>
    /\ UNCHANGED <<gffVars, coerceVars, signalpVars, sortVars>>

\* prepare_metadata raises
PrepareMetadataRaise ==
    /\ pm_runs < MaxRuns
    /\ \E in_fps \in SeqsUpTo(XmlFiles, MaxFiles) : \E o \in BOOLEAN : \E a \in BOOLEAN :
          LET r == PrepareMetadata(fs, in_fps, DbFp, o, a)
          IN  /\ r.kind # "returned"
              /\ fs' = r.fs
              /\ pm_args' = [fp |-> DbFp, in_fps |-> in_fps, overwrite |-> o, append |-> a]
              /\ pm_result' = [kind |-> r.kind, n |-> 0]
    /\ fs0' = fs
    /\ pm_runs' = pm_runs + 1
    /\ UNCHANGED <<overwriteVars, prepareDbVars>>
    /\ UNCHANGED <<gffVars, coerceVars, signalpVars, sortVars>>

InitPrepareMetadata ==
    /\ fs = MetadataFs /\ fs0 = fs
    /\ MetadataIdle /\ OverwriteIdle /\ PrepareDbIdle
    /\ ParserIdle /\ WriterIdle /\ SnifferIdle /\ AttrIdle
    /\ CoerceIdle /\ SignalPIdle /\ SortIdle

NextPrepareMetadata == PrepareMetadataReturn \/ PrepareMetadataRaise

SpecPrepareMetadata == InitPrepareMetadata /\ [][NextPrepareMetadata]_vars

\* no file is listed twice
NoRepeat(q) == \A j \in 1..Len(q) : \A k \in 1..Len(q) : q[j] = q[k] => j = k

\* the entries of the listed files, in order
RECURSIVE EntriesOf(_, _)
EntriesOf(fsys, in_fps) ==
    IF in_fps = <<>> THEN <<>>
    ELSE fsys[Head(in_fps)].rows \o EntriesOf(fsys, Tail(in_fps))

\* the call ran on a database path that did not exist, on distinct files
FreshRun == pm_runs >= 1 /\ ~Exists(fs0, DbFp) /\ NoRepeat(pm_args.in_fps)

(***************************************************************************)
(* C14: prepare_metadata returns the number of records processed: for      *)
(* every list of input files, also one in which some file has no entry,    *)
(* the integer returned is the number of entries inserted into the         *)
(* metadata table over all the files.                                      *)
(***************************************************************************)
C14_ReturnsRecordCount ==
    FreshRun =>
        /\ pm_result.kind = "returned"
        /\ pm_result.n = Len(EntriesOf(fs0, pm_args.in_fps))
        /\ Len(fs[DbFp].rows) = pm_result.n

\* the call ran with default keyword arguments on a database file that an
\* earlier call had created
Rerun ==
    /\ pm_runs >= 2 /\ Exists(fs0, DbFp)
    /\ ~pm_args.overwrite /\ ~pm_args.append
    /\ NoRepeat(pm_args.in_fps)
    /\ \A j \in 1..Len(pm_args.in_fps) : fs0[pm_args.in_fps[j]].rows # <<>>

(***************************************************************************)
(* C15: re-running prepare_metadata with default keyword arguments on a    *)
(* database file that already exists drops and re-creates the table: the   *)
(* call does not fail because the file exists, and afterwards the table    *)
(* holds exactly the rows of the second run's input.                       *)
(***************************************************************************)
C15_RerunRecreatesTable ==
    Rerun =>
        /\ pm_result.kind = "returned"
        /\ Len(fs[DbFp].rows) = Len(EntriesOf(fs0, pm_args.in_fps))
        /\ \A j \in 1..Len(fs[DbFp].rows) :
              fs[DbFp].rows[j] = MetadataRow(EntriesOf(fs0, pm_args.in_fps)[j])


(***************************************************************************)
(* SpecSignalP: SignalP._get_result_paths for one setting of the           *)
(* parameters and one input file.  Paths and keys are character            *)
(* sequences.  The test `Value is 'gff+eps'` compares object identity: it  *)
(* can be true only for a value equal to the literal, and then whether the *)
(* two strings are one object is up to the interpreter (interned).         *)
(***************************************************************************)
MaxFastaLines == 2

WorkingDir == <<"/", "w", "/">>
TmpDefault == <<"/", "v", "a", "r", "/", "t", "m", "p", "/">>
TmpValue == <<"/", "t">>
LogValue == <<"/", "o", "/", "l">>
FastaValue == <<"/", "o", "/", "m">>
GffValue == <<"/", "o", "/", "n">>
Png == <<"p", "n", "g">>
Eps == <<"e", "p", "s">>
PngEps == <<"p", "n", "g", "+", "e", "p", "s">>
\* the literal the -g value is compared with
GffEps == <<"g", "f", "f", "+", "e", "p", "s">>

\* os.path.join(a, b)
PathJoin(a, b) ==
    IF b # <<>> /\ Head(b) = "/" THEN b
    ELSE IF a = <<>> THEN b
    ELSE IF a[Len(a)] = "/" THEN a \o b
    ELSE a \o <<"/">> \o b

\* re.sub('^>\ *', '', line)
RECURSIVE DropSpaces(_)
DropSpaces(s) == IF s # <<>> /\ Head(s) = " " THEN DropSpaces(Tail(s)) ELSE s
SubHeader(line) == IF StartsWith(line, <<">">>) THEN DropSpaces(Tail(line)) ELSE line

\* the characters up to the first whitespace
RECURSIVE UpToSpace(_)
UpToSpace(s) ==
    IF s = <<>> THEN <<>>
    ELSE IF Head(s) \in Whitespace THEN <<>>
    ELSE <<Head(s)>> \o UpToSpace(Tail(s))

\* line.split() is empty, so that line.split()[0] raises IndexError
NoWord(line) == LStrip(line) = <<>>

\* line.split()[0]
FirstWord(line) == UpToSpace(LStrip(line))

\* the lines of data[0] that start with '>'
RECURSIVE HeaderLines(_)
HeaderLines(lines) ==
    IF lines = <<>> THEN <<>>
    ELSE IF StartsWith(Head(lines), <<">">>) THEN <<Head(lines)>> \o HeaderLines(Tail(lines))
    ELSE HeaderLines(Tail(lines))

\* gis
Gis(lines) ==
    LET h == HeaderLines(lines) IN [i \in 1..Len(h) |-> FirstWord(SubHeader(h[i]))]

\* result[key] = ResultPath(Path=path, IsWritten=True)
ResultSet(d, key, path) ==
    IF \E j \in 1..Len(d) : d[j].k = key
    THEN [j \in 1..Len(d) |-> IF d[j].k = key THEN [k |-> key, v |-> path] ELSE d[j]]
    ELSE Append(d, [k |-> key, v |-> path])

\* self.Parameters['-g'].Value is 'gff+eps'
WantsEps(g) == g.value = GffEps /\ g.interned

\* the loop over enumerate(gis), from index i (counted from 0) on
RECURSIVE GraphicsPaths(_, _, _, _)
GraphicsPaths(d, gis, i, g) ==
    IF i >= Len(gis) THEN d
    ELSE LET gi == gis[i + 1]
             png == ResultSet(d, Png \o NatToStr(i), PathJoin(WorkingDir, gi \o <<".">> \o Png))
             eps == ResultSet(png, Eps \o NatToStr(i), PathJoin(WorkingDir, gi \o <<".">> \o Eps))
         IN  GraphicsPaths(IF WantsEps(g) THEN eps ELSE png, gis, i + 1, g)

\* the entries for -k/-T, -l, -m and -n
OptionPaths(params) ==
    LET tmp == IF params.k
               THEN <<[k |-> <<"t", "m", "p">>, v |-> IF params.T THEN TmpValue ELSE TmpDefault]>>
               ELSE <<>>
        log == IF params.l THEN ResultSet(tmp, <<"l", "o", "g">>, LogValue) ELSE tmp
        fasta == IF params.m THEN ResultSet(log, <<"f", "a", "s", "t", "a">>, FastaValue) ELSE log
    IN  IF params.n THEN ResultSet(fasta, <<"g", "f", "f">>, GffValue) ELSE fasta

\* a header line without a word makes line.split()[0] raise IndexError
GetResultPathsFails(params, lines) ==
    /\ params.g.on
    /\ \E i \in 1..Len(HeaderLines(lines)) : NoWord(SubHeader(HeaderLines(lines)[i]))

GetResultPaths(params, lines) ==
    IF params.g.on
    THEN GraphicsPaths(OptionPaths(params), Gis(lines), 0, params.g)
    ELSE OptionPaths(params)

GetResultPathsReturn ==
    /\ sp_pc = "start"
    /\ ~GetResultPathsFails(sp_params, sp_data)
    /\ sp_result' = [kind |-> "returned", paths |-> GetResultPaths(sp_params, sp_data)]
    /\ sp_pc' = "returned"
    /\ UNCHANGED <<sp_params, sp_data, gffVars, coerceVars, utilVars>>

GetResultPathsRaise ==
    /\ sp_pc = "start"
    /\ GetResultPathsFails(sp_params, sp_data)
    /\ sp_result' = [kind |-> "IndexError", paths |-> <<>>]
    /\ sp_pc' = "raised"
    /\ UNCHANGED <<sp_params, sp_data, gffVars, coerceVars, utilVars>>

\* the lines of an input file: headers with and without a description,
\* with blanks after '>', without any word, and a sequence line
FastaLines ==
    { <<">", "a", " ", "x", "\n">>, <<">", " ", " ", "b", "\n">>, <<">", "\n">>,
      <<"A", "C", "\n">>, <<" ", ">", "c", "\n">> }

GValues ==
    { ParamOff,
      [on |-> TRUE, value |-> Png, interned |-> FALSE],
      [on |-> TRUE, value |-> PngEps, interned |-> FALSE],
      [on |-> TRUE, value |-> GffEps, interned |-> FALSE],
      [on |-> TRUE, value |-> GffEps, interned |-> TRUE] }

InitSignalP ==
    /\ sp_params \in [g : GValues, k : BOOLEAN, T : BOOLEAN, l : BOOLEAN, m : BOOLEAN, n : BOOLEAN]
    /\ sp_data \in SeqsUpTo(FastaLines, MaxFastaLines)
    /\ sp_result = [kind |-> "none", paths |-> <<>>] /\ sp_pc = "start"
    /\ ParserIdle /\ WriterIdle /\ SnifferIdle /\ AttrIdle
    /\ CoerceIdle /\ UtilIdle

NextSignalP == GetResultPathsReturn \/ GetResultPathsRaise

SpecSignalP == InitSignalP /\ [][NextSignalP]_vars

\* d[key] is path
HasPath(d, key, path) == \E j \in 1..Len(d) : d[j].k = key /\ d[j].v = path

\* some key of d starts with prefix
HasKeyPrefix(d, prefix) ==
    \E j \in 1..Len(d) :
        Len(d[j].k) >= Len(prefix) /\ SubSeq(d[j].k, 1, Len(prefix)) = prefix

(***************************************************************************)
(* C16: _get_result_paths maps the graphics option to result files as      *)
(* documented: with -g on, the result has one 'png<i>' path per FASTA      *)
(* header of the input file (i counted from 0, the path being              *)
(* <WorkingDir>/<first word of the header>.png); with the -g value         *)
(* 'png+eps' it has in addition one 'eps<i>' path per header; with -g off  *)
(* it has no png and no eps entry.                                         *)
(***************************************************************************)
C16_GraphicsPaths ==
    sp_pc = "returned" =>
        LET d == sp_result.paths
            h == HeaderLines(sp_data)
            word(i) == FirstWord(SubHeader(h[i]))
        IN  /\ sp_params.g.on =>
                  \A i \in 1..Len(h) :
                      HasPath(d, Png \o NatToStr(i - 1), WorkingDir \o word(i) \o <<".">> \o Png)
            /\ sp_params.g.on /\ sp_params.g.value = PngEps =>
                  \A i \in 1..Len(h) :
                      HasPath(d, Eps \o NatToStr(i - 1), WorkingDir \o word(i) \o <<".">> \o Eps)
            /\ ~sp_params.g.on => ~HasKeyPrefix(d, Png) /\ ~HasKeyPrefix(d, Eps)

(***************************************************************************)
(* C25: attribute normalisation is stable: for every input string s, well  *)
(* formed or not, _parse_attr(_attr_to_list(_parse_attr(s))) equals        *)
(* _parse_attr(s).                                                         *)
(***************************************************************************)
C25_NormalisationStable == apc = "reparsed" => attr_again = attr_val

\* an input with a padded pair, a sub-field without '=', one with two '='
\* and an empty sub-field has been decoded, encoded and decoded again
C25_Witness ==
    /\ apc = "reparsed"
    /\ Len(attr_val.tags) >= 2
    /\ attr_val.tags[1] # <<>>
    /\ attr_s # attr_text
    /\ \E i \in 1..Len(attr_val.tags) : attr_val.tags[i] = <<>> /\ attr_val.vals[i] = <<>>

(***************************************************************************)
(* sort_uniref: the names of _status and _kingdom as the characters they   *)
(* are written with, the 11 partition names and paths, the accession of a  *)
(* sequence and the partition key selected for it.                         *)
(***************************************************************************)
MaxSeqs == 2

\* the characters of a name of _status or _kingdom
NameChars(name) ==
    CASE name = "Swiss-Prot" -> <<"S", "w", "i", "s", "s", "-", "P", "r", "o", "t">>
      [] name = "TrEMBL" -> <<"T", "r", "E", "M", "B", "L">>
      [] name = "Bacteria" -> <<"B", "a", "c", "t", "e", "r", "i", "a">>
      [] name = "Archaea" -> <<"A", "r", "c", "h", "a", "e", "a">>
      [] name = "Viruses" -> <<"V", "i", "r", "u", "s", "e", "s">>
      [] name = "Eukaryota" -> <<"E", "u", "k", "a", "r", "y", "o", "t", "a">>
      [] name = "other" -> <<"o", "t", "h", "e", "r">>

Underscore == <<"_">>

\* '%s_%s' % (i, j)
PartitionName(i, j) == NameChars(i) \o Underscore \o NameChars(j)

OtherName == <<"_", "o", "t", "h", "e", "r">>

\* fns: product(_status, _kingdom) in order, then '_other'
Fns ==
    [n \in 1..(Len(StatusNames) * Len(KingdomNames)) |->
        PartitionName(StatusNames[((n - 1) \div Len(KingdomNames)) + 1],
                      KingdomNames[((n - 1) % Len(KingdomNames)) + 1])]
    \o <<OtherName>>

OutD == <<"o", "u", "t">>
PathTemplate == <<"u", "n", "i", "r", "e", "f", "1", "0", "0", "_", "%", "s", ".", "f", "a", "s", "t", "a">>

\* template % f, for a template with one %s
RECURSIVE FormatS(_, _)
FormatS(template, f) ==
    IF template = <<>> THEN <<>>
    ELSE IF StartsWith(template, <<"%", "s">>) THEN f \o SubSeq(template, 3, Len(template))
    ELSE <<Head(template)>> \o FormatS(Tail(template), f)

\* join(out_d, 'uniref100_%s.fasta') % f
PartitionPath(f) == FormatS(PathJoin(OutD, PathTemplate), f)

Fps == [n \in 1..Len(Fns) |-> PartitionPath(Fns[n])]

UniRefPrefix == <<"U", "n", "i", "R", "e", "f", "1", "0", "0", "_">>

\* s.replace(old, '')
RECURSIVE RemoveAll(_, _)
RemoveAll(s, old) ==
    IF s = <<>> THEN <<>>
    ELSE IF StartsWith(s, old) THEN RemoveAll(SubSeq(s, Len(old) + 1, Len(s)), old)
    ELSE <<Head(s)>> \o RemoveAll(Tail(s), old)

AccessionKept(id) == id

\* ac = id.replace('UniRef100_', '')
Accession(id) == RemoveAll(id, UniRefPrefix)

\* group after the loop over the rows SELECT * FROM metadata WHERE ac = ?
\* returned, starting from ['', 'other']
RECURSIVE GroupFrom(_, _, _)
GroupFrom(rows, ac, group) ==
    IF rows = <<>> THEN group
    ELSE IF Head(rows).ac = ac
    THEN GroupFrom(Tail(rows), ac, <<NameChars(StatusNames[Head(rows).status + 1]),
                                     NameChars(KingdomNames[Head(rows).kingdom + 1])>>)
    ELSE GroupFrom(Tail(rows), ac, group)

Group(rows, ac) == GroupFrom(rows, ac, <<<<>>, NameChars("other")>>)

\* '_'.join(group)
PartitionKey(rows, id) == Join(Underscore, Group(rows, Accession(id)))

\* key in files
HasFile(files, key) == \E e \in 1..Len(files) : files[e].k = key

\* seq.write(files[key])
WriteTo(files, key, id) ==
    [e \in 1..Len(files) |->
        IF files[e].k = key THEN [files[e] EXCEPT !.rows = Append(@, id)] ELSE files[e]]

\* for f in fns: _overwrite(f, overwrite), from the n-th name on
RECURSIVE GuardFrom(_, _, _)
GuardFrom(cwd, n, overwrite) ==
    IF n > Len(Fns) THEN [cwd |-> cwd, raised |-> FALSE]
    ELSE IF OverwriteRaises(cwd, <<Fns[n]>>, overwrite, FALSE)
    THEN [cwd |-> cwd, raised |-> TRUE]
    ELSE GuardFrom(Overwrite(cwd, <<Fns[n]>>, overwrite, FALSE), n + 1, overwrite)

(***************************************************************************)
(* SpecSortUniref: one call of sort_uniref.  The UniRef file holds at most *)
(* MaxSeqs sequences whose ids are UniRef100 ids, the metadata table holds *)
(* rows as prepare_metadata inserts them (ac unique, status and kingdom    *)
(* indexes of _status and _kingdom), and a file may stand in the working   *)
(* directory under a partition name.                                       *)
(***************************************************************************)
AcP == <<"P", "1">>
AcQ == <<"Q", "1">>
AcU == <<"U", "P", "I", "1">>
SeqIds == {UniRefPrefix \o AcP, UniRefPrefix \o AcQ, UniRefPrefix \o AcU, AcP}

TableTwo == <<[ac |-> AcP, status |-> 0, kingdom |-> 0], [ac |-> AcQ, status |-> 1, kingdom |-> 4]>>
TableOne == <<[ac |-> AcP, status |-> 1, kingdom |-> 2]>>
Tables == {TableTwo, TableOne, <<>>}

CwdPaths == {<<Fns[n]>> : n \in 1..Len(Fns)}
CwdEmpty == [p \in CwdPaths |-> NoFile]
Cwds == {CwdEmpty, [CwdEmpty EXCEPT ![<<Fns[1]>>] = AFile(<<>>)],
         [CwdEmpty EXCEPT ![<<OtherName>>] = ADir]}

\* the loop of uniref.py:179-180
SortGuard ==
    /\ su_pc = "guard"
    /\ LET g == GuardFrom(su_cwd, 1, su_args.overwrite)
       IN  /\ su_cwd' = g.cwd
           /\ su_pc' = IF g.raised THEN "FileExistsError" ELSE "open"
    /\ UNCHANGED <<su_args, su_files, su_idx>>
    /\ UNCHANGED <<fs, fs0, overwriteVars, prepareDbVars, metadataVars>>
    /\ UNCHANGED <<gffVars, coerceVars, signalpVars>>

\* files = {fn: open(fp, 'w') for fp, fn in zip(fps, fns)}
SortOpen ==
    /\ su_pc = "open"
    /\ su_files' = [n \in 1..Len(Fns) |-> [k |-> Fns[n], fp |-> Fps[n], rows |-> <<>>, open |-> TRUE]]
    /\ su_pc' = "read"
    /\ UNCHANGED <<su_args, su_cwd, su_idx>>
    /\ UNCHANGED <<fs, fs0, overwriteVars, prepareDbVars, metadataVars>>
    /\ UNCHANGED <<gffVars, coerceVars, signalpVars>>

\* one iteration of the loop over the sequences of the UniRef file
SortWrite ==
    /\ su_pc = "read" /\ su_idx < Len(su_args.seqs)
    /\ LET id == su_args.seqs[su_idx + 1]
           key == PartitionKey(su_args.rows, id)
       IN  IF HasFile(su_files, key)
           THEN su_files' = WriteTo(su_files, key, id) /\ su_pc' = su_pc
           ELSE su_files' = su_files /\ su_pc' = "KeyError"
    /\ su_idx' = su_idx + 1
    /\ UNCHANGED <<su_args, su_cwd>>
    /\ UNCHANGED <<fs, fs0, overwriteVars, prepareDbVars, metadataVars>>
    /\ UNCHANGED <<gffVars, coerceVars, signalpVars>>

\* for f in files: files[f].close()
SortClose ==
    /\ su_pc = "read" /\ su_idx = Len(su_args.seqs)
    /\ su_files' = [e \in 1..Len(su_files) |-> [su_files[e] EXCEPT !.open = FALSE]]
    /\ su_pc' = "returned"
    /\ UNCHANGED <<su_args, su_cwd, su_idx>>
    /\ UNCHANGED <<fs, fs0, overwriteVars, prepareDbVars, metadataVars>>
    /\ UNCHANGED <<gffVars, coerceVars, signalpVars>>

InitSortUniref ==
    /\ su_args \in [overwrite : BOOLEAN, seqs : SeqsUpTo(SeqIds, MaxSeqs), rows : Tables]
    /\ su_cwd \in Cwds
    /\ su_files = <<>> /\ su_idx = 0 /\ su_pc = "guard"
    /\ fs = <<>> /\ fs0 = <<>> /\ OverwriteIdle /\ PrepareDbIdle /\ MetadataIdle
    /\ ParserIdle /\ WriterIdle /\ SnifferIdle /\ AttrIdle
    /\ CoerceIdle /\ SignalPIdle

NextSortUniref == SortGuard \/ SortOpen \/ SortWrite \/ SortClose

SpecSortUniref == InitSortUniref /\ [][NextSortUniref]_vars

\* the identifier without its 'UniRef100_' prefix
WithoutPrefix(id) ==
    IF StartsWith(id, UniRefPrefix) THEN SubSeq(id, Len(UniRefPrefix) + 1, Len(id)) ELSE id

\* the partition file the claim names for a sequence
ExpectedPath(rows, id) ==
    LET ac == WithoutPrefix(id)
    IN  IF \E j \in 1..Len(rows) : rows[j].ac = ac
        THEN LET row == rows[CHOOSE j \in 1..Len(rows) : rows[j].ac = ac]
             IN  <<"o", "u", "t", "/", "u", "n", "i", "r", "e", "f", "1", "0", "0", "_">> \o NameChars(StatusNames[row.status + 1])
                   \o <<"_">> \o NameChars(KingdomNames[row.kingdom + 1])
                   \o <<".", "f", "a", "s", "t", "a">>
        ELSE <<"o", "u", "t", "/", "u", "n", "i", "r", "e", "f", "1", "0", "0", "_", "_", "o", "t", "h", "e", "r", ".", "f", "a", "s", "t", "a">>

(***************************************************************************)
(* C23: sort_uniref writes every sequence of the UniRef input to exactly   *)
(* one of the 11 partition files: the file of the status and kingdom of    *)
(* its metadata row when its accession has one, 'uniref100__other.fasta'   *)
(* otherwise; no sequence is dropped, and the partition key selected is    *)
(* always among the opened files (no KeyError).                            *)
(***************************************************************************)
C23_EverySequenceInItsPartition ==
    /\ su_pc # "KeyError"
    /\ su_pc = "returned" =>
          /\ Len(su_files) = 11
          /\ \A e, g \in 1..Len(su_files) : su_files[e].fp = su_files[g].fp => e = g
          /\ \A i \in 1..Len(su_args.seqs) :
                \E e \in 1..Len(su_files) :
                    su_files[e].fp = ExpectedPath(su_args.rows, su_args.seqs[i])
          /\ \A e \in 1..Len(su_files) :
                su_files[e].rows =
                    SelectSeq(su_args.seqs,
                              LAMBDA id : ExpectedPath(su_args.rows, id) = su_files[e].fp)

\* a sequence with a metadata row and one without were written and the
\* call returned
C23_Witness ==
    /\ su_pc = "returned"
    /\ su_args.rows = TableTwo
    /\ su_args.seqs = <<UniRefPrefix \o AcQ, UniRefPrefix \o AcU>>
    /\ su_files[10].rows = <<UniRefPrefix \o AcQ>>
    /\ su_files[11].rows = <<UniRefPrefix \o AcU>>

=============================================================================
